---- MODULE Spec2Model ----
(***************************************************************************)
(* A model of the text-to-sentiment-profile pipeline of SentimentScope      *)
(* (src/sentiment/analyzer.py): preprocess_text, analyze and its helpers,   *)
(* batch_analyze and the get_analyzer singleton; of the rate limiter of     *)
(* src/utils/security.py, the analysis history of the home screen           *)
(* (src/ui/home.py) and the batch endpoint of src/api/api_server.py.        *)
(*                                                                         *)
(* Texts are sequences of one-character strings.  Real numbers are fixed    *)
(* point integers: a polarity or subjectivity x is the integer x * Unit.    *)
(* The Polarity Engine (TextBlob) is external: it is modelled as a fixed,   *)
(* deterministic lexicon scorer that satisfies the contract polarity in     *)
(* [-1,1], subjectivity in [0,1], and that may fail on any one call.        *)
(***************************************************************************)
EXTENDS Integers, Sequences, FiniteSets, TLC

VARIABLES
    _analyzer,   \* the module-level singleton: None or the analyzer instance
    input,       \* what the caller holds: the arguments of its calls
    fault,       \* where the engine fails: no item, or an item and a call
    last,        \* what the last call did: operation, argument, outcome, value
    seen,        \* text -> the profile analyze first returned for it, and
                 \* whether analyze has returned for it again since
    session_state,  \* st.session_state: what the browser session keeps
    now,         \* time.time(), in seconds
    trace        \* what has happened in the session, oldest first

vars == <<_analyzer, input, fault, last, seen, session_state, now, trace>>

----------------------------------------------------------------------------
(* Fixed point numbers *)

\* one unit of polarity / subjectivity is 1/Unit
Unit == 10 ^ 4

Abs(x) == IF x < 0 THEN -x ELSE x

Min2(a, b) == IF a <= b THEN a ELSE b

Max2(a, b) == IF a >= b THEN a ELSE b

\* floor of n / d for d > 0 (\div of Integers is the floor division)
Floor(n, d) == n \div d

\* Python's round(): n / d rounded to the nearest integer, ties to even
RoundDiv(n, d) ==
    LET q == Floor(n, d)
        r == n - q * d
    IN  IF 2 * r < d THEN q
        ELSE IF 2 * r > d THEN q + 1
        ELSE IF q % 2 = 0 THEN q ELSE q + 1

\* round(x, 3) of a number held in units of 1/Unit, still in units of 1/Unit
Round3(x) == RoundDiv(x * 1000, Unit) * (Unit \div 1000)

----------------------------------------------------------------------------
(* Characters and strings *)

WhitespaceChars == {" ", "\t", "\n"}

LowerLetters ==
    {"a", "b", "c", "d", "e", "f", "g", "h", "i", "j", "k", "l", "m",
     "n", "o", "p", "q", "r", "s", "t", "u", "v", "w", "x", "y", "z"}

UpperLetters == {"B", "G"}

WordChars == LowerLetters \cup UpperLetters \cup {"_", "1"}

\* the punctuation the character filter of preprocess_text keeps
KeptPunctuation == {".", "!", "?", ",", ";", ":", "-", "'"}

IsSpace(c) == c \in WhitespaceChars

\* str.lower() on one character
LowerChar(c) ==
    CASE c = "B" -> "b"
      [] c = "G" -> "g"
      [] OTHER -> c

\* s * n
RECURSIVE Repeat(_, _)
Repeat(s, n) ==
    IF n <= 0 THEN <<>>
    ELSE LET half == Repeat(s, n \div 2)
         IN  half \o half \o (IF n % 2 = 1 THEN s ELSE <<>>)

\* the elements s[i], lo <= i <= hi, with keep[i], in order (the range is
\* split in halves, so that a long text does not nest deeply)
RECURSIVE SelectRange(_, _, _, _)
SelectRange(s, keep, lo, hi) ==
    IF lo > hi THEN <<>>
    ELSE IF lo = hi THEN (IF keep[lo] THEN <<s[lo]>> ELSE <<>>)
    ELSE LET mid == (lo + hi) \div 2
         IN  SelectRange(s, keep, lo, mid) \o SelectRange(s, keep, mid + 1, hi)

\* the subsequence of s at the indices i with keep[i]
Select(s, keep) == SelectRange(s, keep, 1, Len(s))

\* str.lower()
Lower(s) ==
    Select([i \in 1..Len(s) |-> LowerChar(s[i])], [i \in 1..Len(s) |-> TRUE])

\* sum of f[i] for lo <= i <= hi (split in halves, as SelectRange)
RECURSIVE SumRange(_, _, _)
SumRange(f, lo, hi) ==
    IF lo > hi THEN 0
    ELSE IF lo = hi THEN f[lo]
    ELSE LET mid == (lo + hi) \div 2
         IN  SumRange(f, lo, mid) + SumRange(f, mid + 1, hi)

\* whether s holds the characters of w from index i on
StartsAt(s, i, w) ==
    /\ i + Len(w) - 1 <= Len(s)
    /\ \A k \in 1..Len(w) : s[i + k - 1] = w[k]

\* "not text.strip()" is false: text has a character that is not whitespace
HasContent(text) == \E i \in 1..Len(text) : ~IsSpace(text[i])

\* str.strip(): s without its leading and trailing whitespace
Strip(s) ==
    IF ~HasContent(s) THEN <<>>
    ELSE LET lo == CHOOSE i \in 1..Len(s) :
                       ~IsSpace(s[i]) /\ \A j \in 1..(i - 1) : IsSpace(s[j])
             hi == CHOOSE i \in 1..Len(s) :
                       ~IsSpace(s[i]) /\ \A j \in (i + 1)..Len(s) : IsSpace(s[j])
         IN  SubSeq(s, lo, hi)

\* len(text.split()): the number of maximal runs of non-whitespace characters
WordCount(text) ==
    Cardinality({i \in 1..Len(text) :
                    ~IsSpace(text[i]) /\ (i = 1 \/ IsSpace(text[i - 1]))})

----------------------------------------------------------------------------
(* preprocess_text *)

\* the named character references of the model's texts and what they decode
\* to; html.unescape accepts each of them with or without its ";"
HtmlEntities ==
    { [name |-> <<"&", "l", "t">>, char |-> "<"],
      [name |-> <<"&", "g", "t">>, char |-> ">"],
      [name |-> <<"&", "a", "m", "p">>, char |-> "&"] }

\* html.unescape(text): every reference is replaced by its character, in one
\* pass (a decoded "&" is not decoded again)
HtmlUnescape(text) ==
    LET n == Len(text)
        \* the references that start at i
        At(i) == IF text[i] # "&" THEN {}
                 ELSE {e \in HtmlEntities : StartsAt(text, i, e.name)}
        \* the number of characters of the reference e found at i
        Width(i, e) ==
            Len(e.name) +
            (IF i + Len(e.name) <= n /\ text[i + Len(e.name)] = ";" THEN 1 ELSE 0)
        \* i lies inside a reference that started before it
        Inside(i) == \E j \in Max2(1, i - 4)..(i - 1) :
                        \E e \in At(j) : i < j + Width(j, e)
        decoded == [i \in 1..n |->
                       IF At(i) # {} THEN (CHOOSE e \in At(i) : TRUE).char
                       ELSE text[i]]
        keep == [i \in 1..n |-> ~Inside(i)]
    IN  Select(decoded, keep)

\* re.sub(r'\s+', ' ', text): every maximal run of whitespace becomes one space
CollapseWhitespace(text) ==
    LET n == Len(text)
        spaced == [i \in 1..n |-> IF IsSpace(text[i]) THEN " " ELSE text[i]]
        keep == [i \in 1..n |->
                    ~IsSpace(text[i]) \/ i = 1 \/ ~IsSpace(text[i - 1])]
    IN  Select(spaced, keep)

\* a class that keeps the angle brackets of markup as well
IsAllowedCharOrMarkup(c) ==
    c \in WordChars \/ IsSpace(c) \/ c \in KeptPunctuation \/ c \in {"<", ">"}

\* the class [\w\s\.\!\?\,\;\:\-\'] whose complement is removed
IsAllowedChar(c) ==
    c \in WordChars \/ IsSpace(c) \/ c \in KeptPunctuation

\* re.sub(r'[^\w\s\.\!\?\,\;\:\-\']', '', text)
RemoveDangerous(text) ==
    Select(text, [i \in 1..Len(text) |-> IsAllowedChar(text[i])])

\* re.sub(r'(.)\1{4,}', r'\1\1\1', text): a maximal run of 5 or more of one
\* character (not a newline) keeps its first 3.  The character at i is dropped
\* when it is the 4th or later of its run and the run has at least 5.
LimitRepeats(text) ==
    LET n == Len(text)
        Dropped(i) ==
            /\ i >= 4
            /\ text[i] # "\n"
            /\ text[i - 1] = text[i]
            /\ text[i - 2] = text[i]
            /\ text[i - 3] = text[i]
            /\ \/ (i >= 5 /\ text[i - 4] = text[i])
               \/ (i < n /\ text[i + 1] = text[i])
    IN  Select(text, [i \in 1..n |-> ~Dropped(i)])

\* a cleaning that limits the repeated characters before it removes the
\* dangerous ones
PreprocessLimitFirst(text) ==
    RemoveDangerous(LimitRepeats(Strip(CollapseWhitespace(HtmlUnescape(text)))))

\* the four steps of preprocess_text, in order
preprocess_text(text) ==
    LimitRepeats(RemoveDangerous(Strip(CollapseWhitespace(HtmlUnescape(text)))))

----------------------------------------------------------------------------
(* The Polarity Engine: TextBlob(text).sentiment, .words, .noun_phrases *)

\* the engine's lexicon: lowercased word -> polarity and subjectivity, in
\* units of 1/Unit
Lexicon ==
    (<<"g", "o", "o", "d">> :> [polarity |-> 7000, subjectivity |-> 6000]) @@
    (<<"b", "a", "d">> :> [polarity |-> -7000, subjectivity |-> 6667]) @@
    (<<"b", "e", "s", "t">> :> [polarity |-> 10000, subjectivity |-> 3000]) @@
    (<<"o", "k">> :> [polarity |-> 5000, subjectivity |-> 5000]) @@
    (<<"h", "a", "r", "d">> :> [polarity |-> -2917, subjectivity |-> 5417]) @@
    (<<"m", "e", "h">> :> [polarity |-> 996, subjectivity |-> 2000]) @@
    (<<"h", "m", "m">> :> [polarity |-> 4, subjectivity |-> 1000])

\* the index of the last character of the token that starts at i
RECURSIVE TokenEnd(_, _)
TokenEnd(text, i) ==
    IF i < Len(text) /\ text[i + 1] \in WordChars THEN TokenEnd(text, i + 1) ELSE i

\* the tokens of text that start at the indices starts
TokensAt(text, starts) ==
    [k \in 1..Len(starts) |-> SubSeq(text, starts[k], TokenEnd(text, starts[k]))]

\* blob.words: the tokens of text, in order; a token is a maximal run of word
\* characters (whitespace and punctuation separate tokens and are dropped)
Tokens(text) ==
    TokensAt(text,
             Select([i \in 1..Len(text) |-> i],
                    [i \in 1..Len(text) |->
                        text[i] \in WordChars /\ (i = 1 \/ text[i - 1] \notin WordChars)]))

\* the lexicon entries of the words that the lexicon knows, in order
Assess(words) ==
    Select([k \in 1..Len(words) |->
               IF Lower(words[k]) \in DOMAIN Lexicon
               THEN Lexicon[Lower(words[k])] ELSE Lower(words[k])],
           [k \in 1..Len(words) |-> Lower(words[k]) \in DOMAIN Lexicon])

\* the mean of the numbers of a sequence, 0 for the empty sequence
Mean(numbers) ==
    IF Len(numbers) = 0 THEN 0
    ELSE SumRange(numbers, 1, Len(numbers)) \div Len(numbers)

\* the polarities of the assessed words
Polarities(assessments) ==
    [k \in 1..Len(assessments) |-> assessments[k].polarity]

Subjectivities(assessments) ==
    [k \in 1..Len(assessments) |-> assessments[k].subjectivity]

\* blob.sentiment.polarity: the mean polarity of the assessed words, 0 if none
EnginePolarity(text) == Mean(Polarities(Assess(Tokens(text))))

\* blob.sentiment.subjectivity: the mean subjectivity of the assessed words
EngineSubjectivity(text) == Mean(Subjectivities(Assess(Tokens(text))))

----------------------------------------------------------------------------
(* SentimentAnalyzer *)

\* class attribute POSITIVE_THRESHOLD = 0.1, in units of 1/Unit
POSITIVE_THRESHOLD == 1000

\* class attribute NEGATIVE_THRESHOLD = -0.1, in units of 1/Unit
NEGATIVE_THRESHOLD == -1000

\* the limits of analyze
MAX_TEXT_CHARS == 10000

MAX_TEXT_WORDS == 2000

\* SentimentAnalyzer(): the instance, with the attributes its methods read
SentimentAnalyzer ==
    [POSITIVE_THRESHOLD |-> POSITIVE_THRESHOLD,
     NEGATIVE_THRESHOLD |-> NEGATIVE_THRESHOLD]

\* the messages of the ValueError that analyze raises
MsgEmpty == "Text input cannot be empty"

MsgTooLong == "Text is too long. Maximum 10,000 characters allowed."

MsgTooManyWords == "Text contains too many words. Maximum 2,000 words allowed."

MsgNoContent == "Text contains no valid content after preprocessing"

\* a classification whose thresholds are exclusive
ClassifyExclusive(self, polarity) ==
    IF polarity > self.POSITIVE_THRESHOLD
    THEN [label |-> "Positive", color |-> "#10b981"]
    ELSE IF polarity < self.NEGATIVE_THRESHOLD
    THEN [label |-> "Negative", color |-> "#ef4444"]
    ELSE [label |-> "Neutral", color |-> "#f59e0b"]

\* label and color for a polarity (the emoji goes with the label)
_classify_sentiment(self, polarity) ==
    IF polarity >= self.POSITIVE_THRESHOLD
    THEN [label |-> "Positive", color |-> "#10b981"]
    ELSE IF polarity <= self.NEGATIVE_THRESHOLD
    THEN [label |-> "Negative", color |-> "#ef4444"]
    ELSE [label |-> "Neutral", color |-> "#f59e0b"]

\* a confidence computed from the signed polarity
ConfidenceSigned(polarity, subjectivity) ==
    RoundDiv(Max2(0, Min2(100000 * Unit,
                          polarity * (10000 \div Unit) * (3 * Unit + subjectivity * 7))),
             10 * Unit)

\* the confidence in hundredths of a percent point (round(confidence, 2) * 100)
_calculate_confidence(polarity, subjectivity) ==
    LET \* abs(polarity) * 100, in units of 1/100
        polarity_confidence == Abs(polarity) * (10000 \div Unit)
        \* 0.3 + (subjectivity * 0.7), in units of 1/(10 * Unit)
        subjectivity_factor == 3 * Unit + subjectivity * 7
        \* the product, in units of 1/one
        confidence == polarity_confidence * subjectivity_factor
        one == 1000 * Unit
        clamped == Max2(0, Min2(100 * one, confidence))
    IN  RoundDiv(clamped, one \div 100)

_get_word_sentiment_type(polarity) ==
    IF polarity > 0 THEN "Positive"
    ELSE IF polarity < 0 THEN "Negative"
    ELSE "Neutral"

\* an insertion that puts e in front of the entries of equal impact
RECURSIVE InsertBeforeTies(_, _)
InsertBeforeTies(sorted, e) ==
    IF sorted = <<>> THEN <<e>>
    ELSE IF Head(sorted).impact > e.impact
    THEN <<Head(sorted)>> \o InsertBeforeTies(Tail(sorted), e)
    ELSE <<e>> \o sorted

\* word_sentiments.sort(key=impact, reverse=True) is stable: e goes behind the
\* entries of the sorted list whose impact is at least its own
RECURSIVE InsertByImpact(_, _)
InsertByImpact(sorted, e) ==
    IF sorted = <<>> THEN <<e>>
    ELSE IF Head(sorted).impact >= e.impact
    THEN <<Head(sorted)>> \o InsertByImpact(Tail(sorted), e)
    ELSE <<e>> \o sorted

RECURSIVE SortByImpact(_)
SortByImpact(entries) ==
    IF entries = <<>> THEN <<>>
    ELSE InsertByImpact(SortByImpact(SubSeq(entries, 1, Len(entries) - 1)),
                        entries[Len(entries)])

\* TextBlob(str(word)).sentiment.polarity, asked only of a word that is
\* longer than 2 characters
WordPolarity(word) == IF Len(word) <= 2 THEN 0 ELSE EnginePolarity(word)

\* an entry whose impact and sentiment come from the rounded polarity
WordEntryRounded(word, word_polarity) ==
    [word |-> Lower(word),
     polarity |-> Round3(word_polarity),
     sentiment |-> _get_word_sentiment_type(Round3(word_polarity)),
     impact |-> Abs(Round3(word_polarity))]

\* the entry of a word whose own polarity is word_polarity
WordEntry(word, word_polarity) ==
    [word |-> Lower(word),
     polarity |-> Round3(word_polarity),
     sentiment |-> _get_word_sentiment_type(word_polarity),
     impact |-> Abs(word_polarity)]

\* a word list that keeps the words of polarity 0 as well
WordSentimentsWithZeros(words) ==
    SortByImpact(
        Select([k \in 1..Len(words) |-> WordEntry(words[k], WordPolarity(words[k]))],
               [k \in 1..Len(words) |-> Len(words[k]) > 2]))

\* one entry for each word of blob.words that is longer than 2 characters and
\* whose own polarity is not 0, sorted by impact
_analyze_word_sentiments(words) ==
    SortByImpact(
        Select([k \in 1..Len(words) |-> WordEntry(words[k], WordPolarity(words[k]))],
               [k \in 1..Len(words) |->
                   Len(words[k]) > 2 /\ WordPolarity(words[k]) # 0]))

\* the operations analyze asks of the engine for the words of a cleaned text,
\* in order: the sentence score, the tokens, the score of each word longer
\* than 2 characters, and the noun phrases (the blob keeps its score and its
\* tokens, so a later read of them asks nothing)
EngineCalls(words) ==
    <<"score", "tokenize">>
    \o Select([k \in 1..Len(words) |-> "score_word"],
              [k \in 1..Len(words) |-> Len(words[k]) > 2])
    \o <<"noun_phrases">>

\* the emotions, in the order of the keys of emotion_keywords
Emotions ==
    <<"joy", "sadness", "anger", "fear", "surprise", "disgust", "trust",
      "anticipation">>

\* emotion_keywords: the keywords of each emotion
emotion_keywords ==
    [ joy |->
          << <<"h", "a", "p", "p", "y">>,
             <<"j", "o", "y">>,
             <<"d", "e", "l", "i", "g", "h", "t">>,
             <<"p", "l", "e", "a", "s", "u", "r", "e">>,
             <<"l", "o", "v", "e">>,
             <<"a", "m", "a", "z", "i", "n", "g">>,
             <<"w", "o", "n", "d", "e", "r", "f", "u", "l">>,
             <<"f", "a", "n", "t", "a", "s", "t", "i", "c">>,
             <<"e", "x", "c", "e", "l", "l", "e", "n", "t">>,
             <<"g", "r", "e", "a", "t">>,
             <<"g", "o", "o", "d">>,
             <<"g", "l", "a", "d">>,
             <<"c", "h", "e", "e", "r", "f", "u", "l">>,
             <<"e", "x", "c", "i", "t", "e", "d">> >>,
      sadness |->
          << <<"s", "a", "d">>,
             <<"u", "n", "h", "a", "p", "p", "y">>,
             <<"d", "e", "p", "r", "e", "s", "s", "e", "d">>,
             <<"s", "o", "r", "r", "o", "w">>,
             <<"g", "r", "i", "e", "f">>,
             <<"m", "i", "s", "e", "r", "a", "b", "l", "e">>,
             <<"d", "i", "s", "a", "p", "p", "o", "i", "n", "t", "e", "d">>,
             <<"u", "n", "f", "o", "r", "t", "u", "n", "a", "t", "e">>,
             <<"t", "e", "r", "r", "i", "b", "l", "e">>,
             <<"a", "w", "f", "u", "l">>,
             <<"b", "a", "d">> >>,
      anger |->
          << <<"a", "n", "g", "r", "y">>,
             <<"m", "a", "d">>,
             <<"f", "u", "r", "i", "o", "u", "s">>,
             <<"r", "a", "g", "e">>,
             <<"h", "a", "t", "e">>,
             <<"i", "r", "r", "i", "t", "a", "t", "e", "d">>,
             <<"a", "n", "n", "o", "y", "e", "d">>,
             <<"f", "r", "u", "s", "t", "r", "a", "t", "e", "d">>,
             <<"o", "u", "t", "r", "a", "g", "e", "d">>,
             <<"h", "o", "s", "t", "i", "l", "e">> >>,
      fear |->
          << <<"a", "f", "r", "a", "i", "d">>,
             <<"s", "c", "a", "r", "e", "d">>,
             <<"f", "e", "a", "r">>,
             <<"t", "e", "r", "r", "i", "f", "i", "e", "d">>,
             <<"a", "n", "x", "i", "o", "u", "s">>,
             <<"w", "o", "r", "r", "i", "e", "d">>,
             <<"n", "e", "r", "v", "o", "u", "s">>,
             <<"p", "a", "n", "i", "c">>,
             <<"f", "r", "i", "g", "h", "t", "e", "n", "e", "d">> >>,
      surprise |->
          << <<"s", "u", "r", "p", "r", "i", "s", "e">>,
             <<"a", "m", "a", "z", "e", "d">>,
             <<"a", "s", "t", "o", "n", "i", "s", "h", "e", "d">>,
             <<"s", "h", "o", "c", "k", "e", "d">>,
             <<"u", "n", "e", "x", "p", "e", "c", "t", "e", "d">>,
             <<"s", "t", "u", "n", "n", "e", "d">>,
             <<"w", "o", "w">> >>,
      disgust |->
          << <<"d", "i", "s", "g", "u", "s", "t">>,
             <<"r", "e", "v", "o", "l", "t", "i", "n", "g">>,
             <<"g", "r", "o", "s", "s">>,
             <<"n", "a", "s", "t", "y">>,
             <<"h", "o", "r", "r", "i", "b", "l", "e">>,
             <<"r", "e", "p", "u", "l", "s", "i", "v", "e">> >>,
      trust |->
          << <<"t", "r", "u", "s", "t">>,
             <<"r", "e", "l", "i", "a", "b", "l", "e">>,
             <<"c", "o", "n", "f", "i", "d", "e", "n", "t">>,
             <<"s", "e", "c", "u", "r", "e">>,
             <<"s", "a", "f", "e">>,
             <<"b", "e", "l", "i", "e", "v", "e">> >>,
      anticipation |->
          << <<"e", "x", "p", "e", "c", "t">>,
             <<"a", "n", "t", "i", "c", "i", "p", "a", "t", "e">>,
             <<"h", "o", "p", "e">>,
             <<"a", "w", "a", "i", "t">>,
             <<"e", "a", "g", "e", "r">>,
             <<"l", "o", "o", "k", "i", "n", "g", " ", "f", "o", "r", "w", "a", "r", "d">> >> ]

\* keyword in text_lower
Contains(text_lower, keyword) ==
    \E i \in {j \in 1..Len(text_lower) : text_lower[j] = keyword[1]} :
        StartsAt(text_lower, i, keyword)

\* the number of the keywords of emotion that text_lower contains
KeywordMatches(emotion, text_lower) ==
    Cardinality({k \in 1..Len(emotion_keywords[emotion]) :
                    Contains(text_lower, emotion_keywords[emotion][k])})

\* a boost whose thresholds are inclusive
BoostInclusive(emotion, polarity, subjectivity) ==
    (IF polarity >= Unit \div 2
     THEN CASE emotion = "joy" -> 6 * polarity
            [] emotion = "trust" -> 4 * polarity
            [] OTHER -> 0
     ELSE IF polarity <= -(Unit \div 2)
     THEN CASE emotion \in {"sadness", "anger"} -> 4 * Abs(polarity)
            [] emotion = "disgust" -> 3 * Abs(polarity)
            [] OTHER -> 0
     ELSE 0)
    + (IF subjectivity >= (7 * Unit) \div 10
          /\ emotion \in {"surprise", "anticipation"}
       THEN 3 * subjectivity
       ELSE 0)

\* the boost of emotion for polarity and subjectivity, in units of
\* 1/(2 * Unit)
Boost(emotion, polarity, subjectivity) ==
    (IF polarity > Unit \div 2
     THEN CASE emotion = "joy" -> 6 * polarity
            [] emotion = "trust" -> 4 * polarity
            [] OTHER -> 0
     ELSE IF polarity < -(Unit \div 2)
     THEN CASE emotion \in {"sadness", "anger"} -> 4 * Abs(polarity)
            [] emotion = "disgust" -> 3 * Abs(polarity)
            [] OTHER -> 0
     ELSE 0)
    + (IF subjectivity > (7 * Unit) \div 10
          /\ emotion \in {"surprise", "anticipation"}
       THEN 3 * subjectivity
       ELSE 0)

\* the score of emotion before normalisation, in units of 1/(2 * Unit)
RawScore(emotion, text_lower, polarity, subjectivity) ==
    KeywordMatches(emotion, text_lower) * 2 * Unit
    + Boost(emotion, polarity, subjectivity)

\* emotion_scores before normalisation
RawScores(text_lower, polarity, subjectivity) ==
    [ joy |-> RawScore("joy", text_lower, polarity, subjectivity),
      sadness |-> RawScore("sadness", text_lower, polarity, subjectivity),
      anger |-> RawScore("anger", text_lower, polarity, subjectivity),
      fear |-> RawScore("fear", text_lower, polarity, subjectivity),
      surprise |-> RawScore("surprise", text_lower, polarity, subjectivity),
      disgust |-> RawScore("disgust", text_lower, polarity, subjectivity),
      trust |-> RawScore("trust", text_lower, polarity, subjectivity),
      anticipation |-> RawScore("anticipation", text_lower, polarity, subjectivity) ]

\* max(emotion_scores.values())
MaxScore(scores) ==
    CHOOSE m \in {scores[e] : e \in DOMAIN scores} :
        \A e \in DOMAIN scores : scores[e] <= m

\* round((v / max_score) * 100, 1) in tenths, where max_score is 1 when no
\* score is above 0
NormalizedScore(v, max_score) ==
    RoundDiv(v * 1000, IF max_score > 0 THEN max_score ELSE 2 * Unit)

\* normalized_scores
Normalize(scores, max_score) ==
    [ joy |-> NormalizedScore(scores.joy, max_score),
      sadness |-> NormalizedScore(scores.sadness, max_score),
      anger |-> NormalizedScore(scores.anger, max_score),
      fear |-> NormalizedScore(scores.fear, max_score),
      surprise |-> NormalizedScore(scores.surprise, max_score),
      disgust |-> NormalizedScore(scores.disgust, max_score),
      trust |-> NormalizedScore(scores.trust, max_score),
      anticipation |-> NormalizedScore(scores.anticipation, max_score) ]

\* the last emotion, in the order of the keys, with the greatest score
LastMax(normalized, m) ==
    Emotions[CHOOSE i \in 1..Len(Emotions) :
                 /\ normalized[Emotions[i]] = m
                 /\ \A j \in (i + 1)..Len(Emotions) : normalized[Emotions[j]] # m]

\* max(normalized_scores, key=normalized_scores.get): the first emotion, in
\* the order of the keys, with the greatest score
FirstMax(normalized, m) ==
    Emotions[CHOOSE i \in 1..Len(Emotions) :
                 /\ normalized[Emotions[i]] = m
                 /\ \A j \in 1..(i - 1) : normalized[Emotions[j]] # m]

\* str.capitalize() of the name of an emotion
Capitalize ==
    [joy |-> "Joy", sadness |-> "Sadness", anger |-> "Anger", fear |-> "Fear",
     surprise |-> "Surprise", disgust |-> "Disgust", trust |-> "Trust",
     anticipation |-> "Anticipation"]

\* sorted(normalized_scores.items(), key=score, reverse=True) is stable: e
\* goes behind the entries whose score is at least its own
RECURSIVE InsertByScore(_, _)
InsertByScore(sorted, e) ==
    IF sorted = <<>> THEN <<e>>
    ELSE IF Head(sorted).score >= e.score
    THEN <<Head(sorted)>> \o InsertByScore(Tail(sorted), e)
    ELSE <<e>> \o sorted

RECURSIVE SortByScore(_)
SortByScore(entries) ==
    IF entries = <<>> THEN <<>>
    ELSE InsertByScore(SortByScore(SubSeq(entries, 1, Len(entries) - 1)),
                       entries[Len(entries)])

\* the emotions with their scores, in the order of the keys
ScoreItems(normalized) ==
    [i \in 1..Len(Emotions) |->
        [emotion |-> Emotions[i], score |-> normalized[Emotions[i]]]]

\* the entries of sorted_emotions[:3] with a score above 0
TopEmotions(sorted_emotions) ==
    Select(SubSeq(sorted_emotions, 1, 3),
           [i \in 1..3 |-> sorted_emotions[i].score > 0])

\* a result that names no emotion when every score is 0
EmotionResultNeutral(normalized, primary_emotion) ==
    [primary_emotion |-> IF normalized[primary_emotion] = 0 THEN "Neutral"
                         ELSE Capitalize[primary_emotion],
     emotion_scores |-> normalized,
     confidence |-> normalized[primary_emotion],
     top_emotions |-> TopEmotions(SortByScore(ScoreItems(normalized))),
     emotion_detected |-> normalized[primary_emotion] > 200]

\* the value of _detect_emotions for normalized_scores
EmotionResult(normalized, primary_emotion) ==
    [primary_emotion |-> Capitalize[primary_emotion],
     emotion_scores |-> normalized,
     confidence |-> normalized[primary_emotion],
     top_emotions |-> TopEmotions(SortByScore(ScoreItems(normalized))),
     emotion_detected |-> normalized[primary_emotion] > 200]

\* the value of _detect_emotions for the raw scores
EmotionsOf(scores) ==
    EmotionResult(Normalize(scores, MaxScore(scores)),
                  FirstMax(Normalize(scores, MaxScore(scores)),
                           MaxScore(Normalize(scores, MaxScore(scores)))))

_detect_emotions(text, polarity, subjectivity) ==
    EmotionsOf(RawScores(Lower(text), polarity, subjectivity))

\* s[:n]
FirstN(s, n) == SubSeq(s, 1, Min2(n, Len(s)))

\* the entries of word_sentiments whose sentiment is the given one, in order
OfSentiment(word_sentiments, sentiment) ==
    Select(word_sentiments,
           [k \in 1..Len(word_sentiments) |->
               word_sentiments[k].sentiment = sentiment])

\* a summary whose totals count the listed words only
SentimentKeywordsCapped(positive_words, negative_words) ==
    [positive |-> FirstN(positive_words, 5),
     negative |-> FirstN(negative_words, 5),
     total_positive |-> Len(FirstN(positive_words, 5)),
     total_negative |-> Len(FirstN(negative_words, 5))]

\* the value _extract_sentiment_keywords returns
SentimentKeywords(positive_words, negative_words) ==
    [positive |-> FirstN(positive_words, 5),
     negative |-> FirstN(negative_words, 5),
     total_positive |-> Len(positive_words),
     total_negative |-> Len(negative_words)]

\* positive_words and negative_words, their first 5 and their lengths
_extract_sentiment_keywords(word_sentiments) ==
    SentimentKeywords(OfSentiment(word_sentiments, "Positive"),
                      OfSentiment(word_sentiments, "Negative"))

\* Counter(items): the distinct items in the order of their first
\* occurrence, each with the number of its occurrences
Counter(items) ==
    Select([k \in 1..Len(items) |->
               [item |-> items[k],
                count |-> Cardinality({j \in 1..Len(items) : items[j] = items[k]})]],
           [k \in 1..Len(items) |-> \A j \in 1..(k - 1) : items[j] # items[k]])

\* most_common sorts by descending count and keeps the order of the counter
\* among equal counts: e goes behind the entries whose count is at least its
\* own
RECURSIVE InsertByCount(_, _)
InsertByCount(sorted, e) ==
    IF sorted = <<>> THEN <<e>>
    ELSE IF Head(sorted).count >= e.count
    THEN <<Head(sorted)>> \o InsertByCount(Tail(sorted), e)
    ELSE <<e>> \o sorted

RECURSIVE SortByCount(_)
SortByCount(entries) ==
    IF entries = <<>> THEN <<>>
    ELSE InsertByCount(SortByCount(SubSeq(entries, 1, Len(entries) - 1)),
                       entries[Len(entries)])

\* the items of the entries
ItemsOf(entries) ==
    Select([k \in 1..Len(entries) |-> entries[k].item],
           [k \in 1..Len(entries) |-> TRUE])

\* [item for item, _ in Counter(items).most_common(n)]
MostCommon(items, n) == ItemsOf(FirstN(SortByCount(Counter(items)), n))

\* blob.noun_phrases: the engine takes each word longer than 3 characters
\* that its lexicon does not know as a phrase, in lower case
NounPhrases(words) ==
    Select([k \in 1..Len(words) |-> Lower(words[k])],
           [k \in 1..Len(words) |->
               Len(words[k]) > 3 /\ Lower(words[k]) \notin DOMAIN Lexicon])

\* [word.lower() for word in blob.words if len(word) > 3]
LongWords(words) ==
    Select([k \in 1..Len(words) |-> Lower(words[k])],
           [k \in 1..Len(words) |-> Len(words[k]) > 3])

\* [w["word"] for w in word_sentiments[:10]]
SentimentWords(word_sentiments) ==
    Select([k \in 1..Len(word_sentiments) |-> word_sentiments[k].word],
           [k \in 1..Len(word_sentiments) |-> k <= 10])

\* the elements of a sequence
Range(s) == {s[k] : k \in 1..Len(s)}

\* a keyword set that counts a word of both lists twice
AdvancedKeywordsSummed(top_phrases, top_words, sentiment_words) ==
    [noun_phrases |-> top_phrases,
     frequent_words |-> top_words,
     sentiment_keywords |-> sentiment_words,
     total_keywords |-> Len(top_words) + Len(sentiment_words)]

\* the value _extract_advanced_keywords returns
AdvancedKeywords(top_phrases, top_words, sentiment_words) ==
    [noun_phrases |-> top_phrases,
     frequent_words |-> top_words,
     sentiment_keywords |-> sentiment_words,
     total_keywords |-> Cardinality(Range(top_words \o sentiment_words))]

\* top_phrases, top_words and sentiment_words from the words of the blob
_extract_advanced_keywords(words, word_sentiments) ==
    AdvancedKeywords(MostCommon(NounPhrases(words), 5),
                     MostCommon(LongWords(words), 10),
                     SentimentWords(word_sentiments))

\* what a call leaves when it raises ValueError(message)
RaiseValueError(message) ==
    [outcome |-> "ValueError", error |-> message,
     profile |-> [label |-> "None"], engine_calls |-> <<>>]

\* what a call leaves when the engine raises on the last of engine_calls
RaiseEngineFailure(engine_calls) ==
    [outcome |-> "EngineFailure", error |-> "",
     profile |-> [label |-> "None"], engine_calls |-> engine_calls]

\* the dict analyze returns, from the results of the engine and the
\* word_sentiments computed from them
ProfileWith(self, text, polarity, subjectivity, words, word_sentiments) ==
    [label |-> _classify_sentiment(self, polarity).label,
     confidence |-> _calculate_confidence(polarity, subjectivity),
     polarity |-> Round3(polarity),
     subjectivity |-> Round3(subjectivity),
     color |-> _classify_sentiment(self, polarity).color,
     text_length |-> Len(text),
     word_count |-> WordCount(text),
     word_sentiments |-> word_sentiments,
     sentiment_keywords |-> _extract_sentiment_keywords(word_sentiments),
     emotions |-> _detect_emotions(text, polarity, subjectivity),
     advanced_keywords |-> _extract_advanced_keywords(words, word_sentiments)]

\* the profile analyze returns, from the results of the engine
Profile(self, text, polarity, subjectivity, words) ==
    ProfileWith(self, text, polarity, subjectivity, words,
                _analyze_word_sentiments(words))

\* the steps of analyze on the engine's results; the engine raises on its
\* failAt-th call (0, or beyond the last call: it does not raise)
Assemble(self, text, cleaned_text, engine_calls, failAt) ==
    IF failAt \in 1..Len(engine_calls)
    THEN RaiseEngineFailure(SubSeq(engine_calls, 1, failAt))
    ELSE [outcome |-> "returned", error |-> "",
          profile |-> Profile(self, text, EnginePolarity(cleaned_text),
                              EngineSubjectivity(cleaned_text), Tokens(cleaned_text)),
          engine_calls |-> engine_calls]

\* an analysis that asks the engine for the score before it looks at
\* cleaned_text
AnalyzeCleanedScoreFirst(self, text, cleaned_text, failAt) ==
    IF cleaned_text = <<>>
    THEN [RaiseValueError(MsgNoContent) EXCEPT !.engine_calls = <<"score">>]
    ELSE Assemble(self, text, cleaned_text, EngineCalls(Tokens(cleaned_text)), failAt)

\* an analysis that rejects a cleaned_text of whitespace only as well
AnalyzeCleanedStrict(self, text, cleaned_text, failAt) ==
    IF ~HasContent(cleaned_text) THEN RaiseValueError(MsgNoContent)
    ELSE Assemble(self, text, cleaned_text, EngineCalls(Tokens(cleaned_text)), failAt)

\* if not cleaned_text: raise; else the analysis of cleaned_text
AnalyzeCleaned(self, text, cleaned_text, failAt) ==
    IF cleaned_text = <<>> THEN RaiseValueError(MsgNoContent)
    ELSE Assemble(self, text, cleaned_text, EngineCalls(Tokens(cleaned_text)), failAt)

\* a character limit that excludes 10000 itself
TooLongExclusive(text) == Len(text) >= MAX_TEXT_CHARS

\* len(text) > 10000
TooLong(text) == Len(text) > MAX_TEXT_CHARS

\* len(text.split()) > 2000
TooManyWords(text) == WordCount(text) > MAX_TEXT_WORDS

analyze(self, text, failAt) ==
    IF ~HasContent(text) THEN RaiseValueError(MsgEmpty)
    ELSE IF TooLong(text) THEN RaiseValueError(MsgTooLong)
    ELSE IF TooManyWords(text) THEN RaiseValueError(MsgTooManyWords)
    ELSE AnalyzeCleaned(self, text, preprocess_text(text), failAt)

\* an analyze that raises the positive threshold of self as it goes
SelfAfterAnalyzeTuned(self, text) ==
    [self EXCEPT !.POSITIVE_THRESHOLD = 8 * POSITIVE_THRESHOLD]

\* the attributes of self after analyze(text): analyze assigns none of them
SelfAfterAnalyze(self, text) == self

\* what batch_analyze appends for text when analyze left r
BatchItem(text, r) ==
    IF r.outcome = "returned" THEN ("original_text" :> text) @@ r.profile
    ELSE [original_text |-> text, error |-> r.error]

\* the loop of batch_analyze from item Len(results) + 1 on; the engine raises
\* on its failAt-th call for item failItem.  A ValueError becomes an error
\* record; any other exception leaves the loop and the call.
RECURSIVE BatchLoop(_, _, _, _, _)

\* a loop that a ValueError ends, after its error record
BatchStepAbort(self, texts, failItem, failAt, results, r) ==
    IF r.outcome = "EngineFailure"
    THEN [outcome |-> "EngineFailure", results |-> <<>>]
    ELSE IF r.outcome = "ValueError"
    THEN [outcome |-> "returned",
          results |-> Append(results, BatchItem(texts[Len(results) + 1], r))]
    ELSE BatchLoop(self, texts, failItem, failAt,
                   Append(results, BatchItem(texts[Len(results) + 1], r)))

\* a loop that turns every exception into an error record
BatchStepCatchAll(self, texts, failItem, failAt, results, r) ==
    BatchLoop(self, texts, failItem, failAt,
              Append(results, BatchItem(texts[Len(results) + 1], r)))

\* the loop after analyze left r for the next item
BatchStep(self, texts, failItem, failAt, results, r) ==
    IF r.outcome = "EngineFailure"
    THEN [outcome |-> "EngineFailure", results |-> <<>>]
    ELSE BatchLoop(self, texts, failItem, failAt,
                   Append(results, BatchItem(texts[Len(results) + 1], r)))

BatchLoop(self, texts, failItem, failAt, results) ==
    IF Len(results) >= Len(texts) THEN [outcome |-> "returned", results |-> results]
    ELSE BatchStep(self, texts, failItem, failAt, results,
                   analyze(self, texts[Len(results) + 1],
                           IF Len(results) + 1 = failItem THEN failAt ELSE 0))

batch_analyze(self, texts, failItem, failAt) ==
    BatchLoop(self, texts, failItem, failAt, <<>>)

----------------------------------------------------------------------------
(* The inputs *)

\* the longest text of words, in words
MaxWords == 2

\* the longest batch, in texts
MaxBatch == 2

\* the engine may fail on any of its first MaxFailAt calls for a text
MaxFailAt == 3

\* the sequences over S of length 0..n
RECURSIVE SeqsUpTo(_, _)
SeqsUpTo(S, n) ==
    IF n = 0 THEN {<<>>}
    ELSE LET shorter == SeqsUpTo(S, n - 1)
         IN  shorter \cup {Append(q, x) : q \in {p \in shorter : Len(p) = n - 1}, x \in S}

\* " ".join(ws)
RECURSIVE JoinWords(_)
JoinWords(ws) ==
    IF ws = <<>> THEN <<>>
    ELSE IF Len(ws) = 1 THEN ws[1]
    ELSE ws[1] \o <<" ">> \o JoinWords(Tail(ws))

Words ==
    { <<"G", "o", "o", "d">>, <<"b", "a", "d">>, <<"o", "k">>,
      <<"m", "e", "h">>, <<"h", "m", "m">>, <<"t", "h", "e">> }

\* texts of blanks, markup, references, punctuation and repeated characters
SpecialTexts ==
    { <<" ">>, <<"\t", " ", "\n">>, <<"<">>, <<"&", "l", "t", ";">>,
      <<"<", " ", "<">>,
      <<" ", "b", "a", "d", "\n", "\t", "G", "o", "o", "d", "!", " ">>,
      <<"<", "b", ">", "b", "a", "d", "<", "b", ">">>,
      <<"b", "a", "d", "d", "d", "d", "d", "!", "!", "!", "!", "!", "!">> }

\* texts at the limits of analyze: exactly at and one past the character
\* limit and the word limit, and texts that fail several checks at once
LimitTexts ==
    { Repeat(<<"a">>, MAX_TEXT_CHARS),
      Repeat(<<"a">>, MAX_TEXT_CHARS + 1),
      Repeat(<<" ">>, MAX_TEXT_CHARS + 1),
      Repeat(<<"a", " ">>, MAX_TEXT_WORDS),
      Repeat(<<"a", " ">>, MAX_TEXT_WORDS + 1),
      Repeat(<<"a", " ">>, (MAX_TEXT_CHARS \div 2) + 1),
      Repeat(<<"<", " ">>, MAX_TEXT_WORDS + 1) }

Texts == {JoinWords(ws) : ws \in SeqsUpTo(Words, MaxWords)} \cup SpecialTexts

\* the texts of the batches: empty, invalid after preprocessing, and valid
BatchTexts == { <<>>, <<"<">>, <<"b", "a", "d">>, <<"G", "o", "o", "d">> }

Inputs == {<<t>> : t \in Texts} \cup SeqsUpTo(BatchTexts, MaxBatch)

\* the engine works
NoFault == [item |-> 0, call |-> 0]

\* the engine works, or raises on its call-th call for input[item]
Faults(texts) ==
    {NoFault} \cup [item : 1..Len(texts), call : 1..MaxFailAt]

----------------------------------------------------------------------------
(* The browser session: st.session_state, the clock and RateLimiter *)

\* time.time() when the session starts, in seconds
Epoch == 1700000000

\* the settings of RateLimiter
MAX_REQUESTS_PER_MINUTE == 10

MAX_REQUESTS_PER_HOUR == 100

COOLDOWN_SECONDS == 2

\* st.session_state before the first request, each key with the value that
\* the handlers give it when they do not find it
NewSession ==
    [rate_limit_requests |-> <<>>, last_request_time |-> 0,
     history |-> <<>>, analysis_count |-> 0, security_logs |-> <<>>]

SessionStart ==
    /\ session_state = NewSession
    /\ now = Epoch
    /\ trace = <<>>

\* [req_time for req_time in requests if current_time - req_time < age]
Within(requests, current_time, age) ==
    Select(requests,
           [k \in 1..Len(requests) |-> current_time - requests[k] < age])

\* what check_rate_limit returns, and st.session_state after it
RateLimitResult(is_allowed, message, state) ==
    [is_allowed |-> is_allowed, message |-> message, session_state |-> state]

\* a limiter that looks at the cooldown after the two counts
CheckLimitsCooldownLast(state, current_time) ==
    IF Len(Within(state.rate_limit_requests, current_time, 60))
           >= MAX_REQUESTS_PER_MINUTE
    THEN RateLimitResult(FALSE,
             "Rate limit exceeded. Please wait a minute before trying again.",
             state)
    ELSE IF Len(state.rate_limit_requests) >= MAX_REQUESTS_PER_HOUR
    THEN RateLimitResult(FALSE, "Hourly limit reached. Please try again later.",
                         state)
    ELSE IF current_time - state.last_request_time < COOLDOWN_SECONDS
    THEN RateLimitResult(FALSE,
             <<"Please wait",
               COOLDOWN_SECONDS - (current_time - state.last_request_time),
               "seconds before analyzing again.">>,
             state)
    ELSE RateLimitResult(TRUE, "",
             [state EXCEPT !.rate_limit_requests = Append(@, current_time),
                           !.last_request_time = current_time])

\* a limiter whose rejections for the minute restart the cooldown
CheckLimitsRestarting(state, current_time) ==
    IF current_time - state.last_request_time < COOLDOWN_SECONDS
    THEN RateLimitResult(FALSE,
             <<"Please wait",
               COOLDOWN_SECONDS - (current_time - state.last_request_time),
               "seconds before analyzing again.">>,
             state)
    ELSE IF Len(Within(state.rate_limit_requests, current_time, 60))
              >= MAX_REQUESTS_PER_MINUTE
    THEN RateLimitResult(FALSE,
             "Rate limit exceeded. Please wait a minute before trying again.",
             [state EXCEPT !.last_request_time = current_time])
    ELSE IF Len(state.rate_limit_requests) >= MAX_REQUESTS_PER_HOUR
    THEN RateLimitResult(FALSE, "Hourly limit reached. Please try again later.",
                         state)
    ELSE RateLimitResult(TRUE, "",
             [state EXCEPT !.rate_limit_requests = Append(@, current_time),
                           !.last_request_time = current_time])

\* a limiter that lets a request through when the count is at the limit
CheckLimitsExclusive(state, current_time) ==
    IF current_time - state.last_request_time < COOLDOWN_SECONDS
    THEN RateLimitResult(FALSE,
             <<"Please wait",
               COOLDOWN_SECONDS - (current_time - state.last_request_time),
               "seconds before analyzing again.">>,
             state)
    ELSE IF Len(Within(state.rate_limit_requests, current_time, 60))
              > MAX_REQUESTS_PER_MINUTE
    THEN RateLimitResult(FALSE,
             "Rate limit exceeded. Please wait a minute before trying again.",
             state)
    ELSE IF Len(state.rate_limit_requests) > MAX_REQUESTS_PER_HOUR
    THEN RateLimitResult(FALSE, "Hourly limit reached. Please try again later.",
                         state)
    ELSE RateLimitResult(TRUE, "",
             [state EXCEPT !.rate_limit_requests = Append(@, current_time),
                           !.last_request_time = current_time])

\* check_rate_limit once the requests older than an hour are removed: the
\* cooldown, the requests of the last minute, the requests of the last hour,
\* and the update of the tracking
CheckLimits(state, current_time) ==
    IF current_time - state.last_request_time < COOLDOWN_SECONDS
    THEN RateLimitResult(FALSE,
             <<"Please wait",
               COOLDOWN_SECONDS - (current_time - state.last_request_time),
               "seconds before analyzing again.">>,
             state)
    ELSE IF Len(Within(state.rate_limit_requests, current_time, 60))
              >= MAX_REQUESTS_PER_MINUTE
    THEN RateLimitResult(FALSE,
             "Rate limit exceeded. Please wait a minute before trying again.",
             state)
    ELSE IF Len(state.rate_limit_requests) >= MAX_REQUESTS_PER_HOUR
    THEN RateLimitResult(FALSE, "Hourly limit reached. Please try again later.",
                         state)
    ELSE RateLimitResult(TRUE, "",
             [state EXCEPT !.rate_limit_requests = Append(@, current_time),
                           !.last_request_time = current_time])

\* RateLimiter.check_rate_limit() at current_time
check_rate_limit(state, current_time) ==
    CheckLimits([state EXCEPT !.rate_limit_requests = Within(@, current_time, 3600)],
                current_time)

----------------------------------------------------------------------------
(* The home screen: InputValidator, SecurityLogger and the Analyze button *)

\* the limits of InputValidator
MIN_TEXT_LENGTH == 1

MAX_TEXT_LENGTH == 10000

MAX_WORD_COUNT == 2000

\* the least k >= from at which w starts in text, 0 if there is none
FirstFrom(text, from, w) ==
    IF \E k \in from..Len(text) : StartsAt(text, k, w)
    THEN CHOOSE k \in from..Len(text) :
             /\ StartsAt(text, k, w)
             /\ \A j \in from..(k - 1) : ~StartsAt(text, j, w)
    ELSE 0

\* SQL_INJECTION_PATTERN.search(text): one of the keywords, in any case,
\* between two word boundaries
HasSqlKeyword(text) ==
    \E keyword \in {<<"s", "e", "l", "e", "c", "t">>,
                     <<"i", "n", "s", "e", "r", "t">>,
                     <<"u", "p", "d", "a", "t", "e">>,
                     <<"d", "e", "l", "e", "t", "e">>,
                     <<"d", "r", "o", "p">>,
                     <<"c", "r", "e", "a", "t", "e">>,
                     <<"a", "l", "t", "e", "r">>,
                     <<"e", "x", "e", "c">>,
                     <<"e", "x", "e", "c", "u", "t", "e">>} :
        \E i \in 1..Len(text) :
            /\ StartsAt(Lower(text), i, keyword)
            /\ i = 1 \/ text[i - 1] \notin WordChars
            /\ i + Len(keyword) > Len(text) \/ text[i + Len(keyword)] \notin WordChars

\* re.findall(r'[^a-zA-Z0-9\s\.\,\!\?\-\']', text): the places of the special
\* characters
SpecialPlaces(text) ==
    {i \in 1..Len(text) :
        text[i] \notin (LowerLetters \cup UpperLetters \cup {"1"}
                        \cup WhitespaceChars \cup {".", ",", "!", "?", "-", "'"})}

\* what validate_input returns
Validation(is_valid, message) == [is_valid |-> is_valid, message |-> message]

\* InputValidator.validate_input(text)
validate_input(text) ==
    IF ~HasContent(text)
    THEN Validation(FALSE, "Please enter some text to analyze.")
    ELSE IF Len(Strip(text)) < MIN_TEXT_LENGTH
    THEN Validation(FALSE, "Text is too short. Please enter at least 1 character.")
    ELSE IF Len(text) > MAX_TEXT_LENGTH
    THEN Validation(FALSE, "Text is too long. Maximum 10000 characters allowed.")
    ELSE IF WordCount(text) > MAX_WORD_COUNT
    THEN Validation(FALSE, "Too many words. Maximum 2000 words allowed.")
    ELSE IF HasSqlKeyword(text)
    THEN Validation(FALSE, "Invalid input detected. Please remove SQL keywords.")
    ELSE IF 2 * Cardinality(SpecialPlaces(text)) > Max2(Len(text), 1)
    THEN Validation(FALSE, "Text contains too many special characters.")
    ELSE Validation(TRUE, "")

\* the places where SCRIPT_PATTERN matches: "<script", in any case, the
\* first ">" after it, and a "</script>" after that
ScriptsAt(text) ==
    {i \in 1..Len(text) :
        /\ StartsAt(Lower(text), i, <<"<", "s", "c", "r", "i", "p", "t">>)
        /\ FirstFrom(text, i + 7, <<">">>) # 0
        /\ FirstFrom(Lower(text), FirstFrom(text, i + 7, <<">">>) + 1,
                     <<"<", "/", "s", "c", "r", "i", "p", "t", ">">>) # 0}

\* SCRIPT_PATTERN.sub('', text): the leftmost match goes, up to the end of
\* the first "</script>", and the search goes on behind it
RECURSIVE RemoveScripts(_)
RemoveScripts(text) ==
    IF ScriptsAt(text) = {} THEN text
    ELSE LET i == CHOOSE m \in ScriptsAt(text) : \A n \in ScriptsAt(text) : m <= n
             k == FirstFrom(Lower(text), FirstFrom(text, i + 7, <<">">>) + 1,
                            <<"<", "/", "s", "c", "r", "i", "p", "t", ">">>)
         IN  SubSeq(text, 1, i - 1) \o RemoveScripts(SubSeq(text, k + 9, Len(text)))

\* the places where HTML_TAG_PATTERN <[^>]+> matches: a "<" whose first ">"
\* is not the next character
TagsAt(text) ==
    {i \in 1..Len(text) :
        text[i] = "<" /\ FirstFrom(text, i + 1, <<">">>) >= i + 2}

\* HTML_TAG_PATTERN.sub('', text)
RECURSIVE RemoveTags(_)
RemoveTags(text) ==
    IF TagsAt(text) = {} THEN text
    ELSE LET i == CHOOSE m \in TagsAt(text) : \A n \in TagsAt(text) : m <= n
         IN  SubSeq(text, 1, i - 1)
             \o RemoveTags(SubSeq(text, FirstFrom(text, i + 1, <<">">>) + 1, Len(text)))

\* InputValidator.sanitize_text(text)
sanitize_text(text) ==
    IF text = <<>> THEN <<>>
    ELSE Strip(FirstN(RemoveTags(RemoveScripts(text)), MAX_TEXT_LENGTH))

\* the places where a URL starts
UrlsAt(text_lower) ==
    {i \in 1..Len(text_lower) :
        \/ StartsAt(text_lower, i, <<"h", "t", "t", "p", ":", "/", "/">>)
        \/ StartsAt(text_lower, i, <<"h", "t", "t", "p", "s", ":", "/", "/">>)}

\* InputValidator.is_spam(text): a spam word, "$$$" or "!!!!!!", or 5 URLs on
\* one line, in any case
is_spam(text) ==
    \/ \E word \in {<<"v", "i", "a", "g", "r", "a">>,
                   <<"c", "i", "a", "l", "i", "s">>,
                   <<"l", "o", "t", "t", "e", "r", "y">>,
                   <<"w", "i", "n", "n", "e", "r">>,
                   <<"p", "r", "i", "z", "e">>,
                   <<"c", "l", "i", "c", "k", " ", "h", "e", "r", "e">>,
                   <<"b", "u", "y", " ", "n", "o", "w">>} : Contains(Lower(text), word)
    \/ Contains(text, <<"$", "$", "$">>)
    \/ Contains(text, <<"!", "!", "!", "!", "!", "!">>)
    \/ \E a \in UrlsAt(Lower(text)) :
           Cardinality({b \in UrlsAt(Lower(text)) :
                           b >= a /\ \A j \in a..b : text[j] # "\n"}) >= 5

\* s[-n:] for n > 0
LastN(s, n) == SubSeq(s, Max2(1, Len(s) - n + 1), Len(s))

\* a logger that keeps the first 100 entries
LogEventKeepingOldest(state, current_time, event_type, details) ==
    [state EXCEPT !.security_logs =
        FirstN(Append(@, [timestamp |-> current_time, type |-> event_type,
                          details |-> details]), 100)]

\* SecurityLogger.log_event(event_type, details) at current_time: the session
\* state after it
log_event(state, current_time, event_type, details) ==
    [state EXCEPT !.security_logs =
        LastN(Append(@, [timestamp |-> current_time, type |-> event_type,
                         details |-> details]), 100)]

\* a get_recent_logs that returns no entry for the count 0
GetRecentLogsCounting(state, count) ==
    SubSeq(state.security_logs,
           Max2(1, Len(state.security_logs) - Max2(count, 0) + 1),
           Len(state.security_logs))

\* SecurityLogger.get_recent_logs(count): the slice security_logs[-count:],
\* which starts count entries before the end for a positive count, at the
\* first entry for the count 0, and -count entries after it for a negative
\* count
get_recent_logs(state, count) ==
    SubSeq(state.security_logs,
           IF count > 0 THEN Max2(1, Len(state.security_logs) - count + 1)
           ELSE Min2(-count, Len(state.security_logs)) + 1,
           Len(state.security_logs))

\* a history that takes the new entry at its end
HistoryAppended(history, sanitized_text, result, current_time) ==
    FirstN(Append(history,
                  [text |-> IF Len(sanitized_text) > 100
                            THEN SubSeq(sanitized_text, 1, 100) \o <<".", ".", ".">>
                            ELSE sanitized_text,
                   result |-> result,
                   timestamp |-> current_time]),
           10)

\* st.session_state.history after the entry of an analysis is inserted at
\* its head and it is cut to 10 entries
HistoryWith(history, sanitized_text, result, current_time) ==
    FirstN(<< [text |-> IF Len(sanitized_text) > 100
                        THEN SubSeq(sanitized_text, 1, 100) \o <<".", ".", ".">>
                        ELSE sanitized_text,
               result |-> result,
               timestamp |-> current_time] >> \o history,
           10)

\* a call that render made: the function, its argument and what it returned
\* (for analyze: how it ended)
Called(fn, arg, returned) == [fn |-> fn, arg |-> arg, returned |-> returned]

\* what a press of the Analyze button leaves: how it ended, the text that
\* was sanitized (if any), the result of analyze (if any), whether
\* get_analyzer was called, the calls of the security flow in their order,
\* and the session state
Pressed(outcome, sanitized_text, result, analyzed, calls, state) ==
    [outcome |-> outcome, text |-> sanitized_text, result |-> result,
     analyzed |-> analyzed, calls |-> calls, session_state |-> state]

\* pressed, with the calls that were made before its own
Preceded(calls, pressed) == [pressed EXCEPT !.calls = calls \o @]

\* a try block that gives the request back when analyze raises ValueError
AfterTryRefunding(state, sanitized_text, current_time, r) ==
    IF r.outcome = "returned"
    THEN Pressed("analysis_success", sanitized_text, r.profile, TRUE,
             <<Called("analyze", sanitized_text, r.outcome)>>,
             log_event([state EXCEPT
                            !.analysis_count = @ + 1,
                            !.history = HistoryWith(@, sanitized_text, r.profile,
                                                    current_time)],
                       current_time, "analysis_success",
                       <<"Analyzed", Len(sanitized_text), "characters">>))
    ELSE IF r.outcome = "ValueError"
    THEN Pressed("validation_error", sanitized_text, r.profile, TRUE,
             <<Called("analyze", sanitized_text, r.outcome)>>,
             log_event([state EXCEPT
                            !.rate_limit_requests = SubSeq(@, 1, Len(@) - 1),
                            !.last_request_time = 0],
                       current_time, "validation_error", r.error))
    ELSE Pressed("analysis_error", sanitized_text, r.profile, TRUE,
             <<Called("analyze", sanitized_text, r.outcome)>>,
             log_event(state, current_time, "analysis_error", r.error))

\* the try block of render: analyze(sanitized_text) left r
AfterTry(state, sanitized_text, current_time, r) ==
    IF r.outcome = "returned"
    THEN Pressed("analysis_success", sanitized_text, r.profile, TRUE,
             <<Called("analyze", sanitized_text, r.outcome)>>,
             log_event([state EXCEPT
                            !.analysis_count = @ + 1,
                            !.history = HistoryWith(@, sanitized_text, r.profile,
                                                    current_time)],
                       current_time, "analysis_success",
                       <<"Analyzed", Len(sanitized_text), "characters">>))
    ELSE IF r.outcome = "ValueError"
    THEN Pressed("validation_error", sanitized_text, r.profile, TRUE,
             <<Called("analyze", sanitized_text, r.outcome)>>,
             log_event(state, current_time, "validation_error", r.error))
    ELSE Pressed("analysis_error", sanitized_text, r.profile, TRUE,
             <<Called("analyze", sanitized_text, r.outcome)>>,
             log_event(state, current_time, "analysis_error", r.error))

\* a render that analyzes the text as it was entered
AfterRateLimitRaw(self, text_input, current_time, failAt, limit) ==
    IF ~limit.is_allowed
    THEN Pressed("rate_limit", <<>>, [label |-> "None"], FALSE,
             <<Called("check_rate_limit", <<>>, FALSE)>>,
             log_event(limit.session_state, current_time, "rate_limit", limit.message))
    ELSE IF is_spam(sanitize_text(text_input))
    THEN Pressed("spam_detected", sanitize_text(text_input), [label |-> "None"], FALSE,
             <<Called("check_rate_limit", <<>>, TRUE),
               Called("sanitize_text", text_input, sanitize_text(text_input)),
               Called("is_spam", sanitize_text(text_input), TRUE)>>,
             log_event(limit.session_state, current_time, "spam_detected",
                       "Spam content blocked"))
    ELSE Preceded(<<Called("check_rate_limit", <<>>, TRUE),
                    Called("sanitize_text", text_input, sanitize_text(text_input)),
                    Called("is_spam", sanitize_text(text_input), FALSE)>>,
                  AfterTry(limit.session_state, text_input, current_time,
                           analyze(self, text_input, failAt)))

\* render once the rate limiter has answered limit: the warning, or
\* sanitize_text, is_spam and the try block
AfterRateLimit(self, text_input, current_time, failAt, limit) ==
    IF ~limit.is_allowed
    THEN Pressed("rate_limit", <<>>, [label |-> "None"], FALSE,
             <<Called("check_rate_limit", <<>>, FALSE)>>,
             log_event(limit.session_state, current_time, "rate_limit", limit.message))
    ELSE IF is_spam(sanitize_text(text_input))
    THEN Pressed("spam_detected", sanitize_text(text_input), [label |-> "None"], FALSE,
             <<Called("check_rate_limit", <<>>, TRUE),
               Called("sanitize_text", text_input, sanitize_text(text_input)),
               Called("is_spam", sanitize_text(text_input), TRUE)>>,
             log_event(limit.session_state, current_time, "spam_detected",
                       "Spam content blocked"))
    ELSE Preceded(<<Called("check_rate_limit", <<>>, TRUE),
                    Called("sanitize_text", text_input, sanitize_text(text_input)),
                    Called("is_spam", sanitize_text(text_input), FALSE)>>,
                  AfterTry(limit.session_state, sanitize_text(text_input),
                           current_time,
                           analyze(self, sanitize_text(text_input), failAt)))

\* render with the Analyze button pressed on text_input
AnalyzePressed(state, self, text_input, current_time, failAt) ==
    IF ~HasContent(text_input)
    THEN Pressed("empty", <<>>, [label |-> "None"], FALSE, <<>>, state)
    ELSE IF ~validate_input(text_input).is_valid
    THEN Pressed("invalid", <<>>, [label |-> "None"], FALSE,
             <<Called("validate_input", text_input, FALSE)>>,
             log_event(state, current_time, "validation_error",
                       validate_input(text_input).message))
    ELSE Preceded(<<Called("validate_input", text_input, TRUE)>>,
                  AfterRateLimit(self, text_input, current_time, failAt,
                                 check_rate_limit(state, current_time)))

----------------------------------------------------------------------------
(* The REST API: POST /api/v1/batch *)

\* BatchAnalyzeRequest.texts_valid(v): the ValueError it raises, or "" when
\* it returns v
texts_valid(v) ==
    IF Len(v) = 0 THEN "Texts list cannot be empty"
    ELSE IF Len(v) > 100 THEN "Maximum 100 texts per batch"
    ELSE ""

\* what analyzer.analyze leaves for each text of the request, the engine
\* failing where engine_fault says
Analyses(texts, engine_fault) ==
    [i \in 1..Len(texts) |->
        analyze(SentimentAnalyzer, texts[i],
                IF engine_fault.item = i THEN engine_fault.call ELSE 0)]

\* result after result.pop(key, None) for each of the keys
Popped(result, keys) == [k \in DOMAIN result \ keys |-> result[k]]

\* the result of one text as batch_analyze appends it
Filtered(request, result) ==
    Popped(result,
           (IF request.include_emotions THEN {} ELSE {"emotions"})
           \cup (IF request.include_keywords THEN {} ELSE {"advanced_keywords"}))

\* a batch_analyze that leaves out the texts for which analyze raised
BatchResponseSkipping(request, analyses) ==
    [status |-> 200,
     success |-> TRUE,
     results |-> [i \in 1..Cardinality({j \in 1..Len(analyses) :
                                            analyses[j].outcome = "returned"}) |->
                     Filtered(request,
                              analyses[CHOOSE j \in 1..Len(analyses) :
                                  /\ analyses[j].outcome = "returned"
                                  /\ Cardinality({k \in 1..j :
                                         analyses[k].outcome = "returned"}) = i].profile)],
     total_processed |-> Cardinality({j \in 1..Len(analyses) :
                                         analyses[j].outcome = "returned"})]

\* batch_analyze once the analyses of the texts are done: the first one that
\* raised ends the request with status 500, and the results are returned
\* when none did
BatchResponse(request, analyses) ==
    IF \E i \in 1..Len(analyses) : analyses[i].outcome # "returned"
    THEN [status |-> 500,
          detail |-> <<"Batch analysis failed:",
                       analyses[CHOOSE i \in 1..Len(analyses) :
                                    /\ analyses[i].outcome # "returned"
                                    /\ \A j \in 1..(i - 1) :
                                           analyses[j].outcome = "returned"].error>>]
    ELSE [status |-> 200,
          success |-> TRUE,
          results |-> [i \in 1..Len(analyses) |->
                          Filtered(request, analyses[i].profile)],
          total_processed |-> Len(analyses)]

\* POST /api/v1/batch with request as its body: the validation error of the
\* request model, or what batch_analyze answers
batch_analyze_endpoint(request, engine_fault) ==
    IF texts_valid(request.texts) # ""
    THEN [status |-> 422, detail |-> texts_valid(request.texts)]
    ELSE BatchResponse(request, Analyses(request.texts, engine_fault))

----------------------------------------------------------------------------
(* The calls *)

\* _analyzer = None
None == [class |-> "NoneType"]

NoCall == [op |-> "none"]

Init ==
    /\ _analyzer = None
    /\ input \in Inputs
    /\ fault \in Faults(input)
    /\ last = NoCall
    /\ seen = <<>>
    /\ SessionStart

\* the start of a run whose caller holds one of inputs and whose engine
\* fails as one of faults says: no analyzer yet, a new session
Start(inputs, faults) ==
    /\ _analyzer = None
    /\ input \in inputs
    /\ fault \in faults
    /\ last = NoCall
    /\ seen = <<>>
    /\ SessionStart

\* get_analyzer(): creates the singleton on the first call
GetAnalyzer ==
    /\ _analyzer' = IF _analyzer = None THEN SentimentAnalyzer ELSE _analyzer
    /\ last' = [op |-> "get_analyzer"]
    /\ UNCHANGED <<input, fault, seen, session_state, now, trace>>

\* the state after analyze(text) left r
AfterAnalyze(text, r) ==
    /\ last' = [op |-> "analyze", text |-> text,
                outcome |-> r.outcome, error |-> r.error,
                profile |-> r.profile, engine_calls |-> r.engine_calls]
    /\ seen' = IF r.outcome # "returned" THEN seen
               ELSE IF text \in DOMAIN seen
               THEN [seen EXCEPT ![text].again = TRUE]
               ELSE (text :> [profile |-> r.profile, again |-> FALSE]) @@ seen
    /\ _analyzer' = SelfAfterAnalyze(_analyzer, text)

\* get_analyzer().analyze(input[i])
Analyze(i) ==
    /\ _analyzer # None
    /\ AfterAnalyze(input[i],
                    analyze(_analyzer, input[i], IF fault.item = i THEN fault.call ELSE 0))
    /\ UNCHANGED <<input, fault, session_state, now, trace>>

\* the state after batch_analyze(input) left r
AfterBatch(r) ==
    last' = [op |-> "batch_analyze", texts |-> input,
             outcome |-> r.outcome, results |-> r.results]

\* get_analyzer().batch_analyze(input)
BatchAnalyze ==
    /\ _analyzer # None
    /\ AfterBatch(batch_analyze(_analyzer, input, fault.item, fault.call))
    /\ UNCHANGED <<_analyzer, input, fault, seen, session_state, now, trace>>

Next ==
    \/ GetAnalyzer
    \/ \E i \in 1..Len(input) : Analyze(i)
    \/ BatchAnalyze

Spec == Init /\ [][Next]_vars

\* the caller analyzes one text, at the limits of analyze or one of Texts,
\* with an engine that works
InitLimits ==
    /\ _analyzer = None
    /\ input \in {<<t>> : t \in Texts \cup LimitTexts}
    /\ fault = NoFault
    /\ last = NoCall
    /\ seen = <<>>
    /\ SessionStart

NextLimits ==
    \/ GetAnalyzer
    \/ Analyze(1)

SpecLimits == InitLimits /\ [][NextLimits]_vars

\* the polarities and subjectivities given to _calculate_confidence lie on a
\* grid of GridSteps steps per unit
GridSteps == 20

GridPolarities ==
    {(k * Unit) \div GridSteps : k \in (-GridSteps)..GridSteps} \cup {8000, -8000, 996}

GridSubjectivities ==
    {(k * Unit) \div GridSteps : k \in 0..GridSteps} \cup {6667}

\* get_analyzer()._calculate_confidence(polarity, subjectivity)
CalculateConfidence(polarity, subjectivity) ==
    /\ _analyzer # None
    /\ last' = [op |-> "_calculate_confidence", polarity |-> polarity,
                subjectivity |-> subjectivity,
                confidence |-> _calculate_confidence(polarity, subjectivity)]
    /\ UNCHANGED <<_analyzer, input, fault, seen, session_state, now, trace>>

\* the caller computes confidences only
InitConfidence ==
    /\ _analyzer = None
    /\ input = <<>>
    /\ fault = NoFault
    /\ last = NoCall
    /\ seen = <<>>
    /\ SessionStart

NextConfidence ==
    \/ GetAnalyzer
    \/ \E polarity \in GridPolarities, subjectivity \in GridSubjectivities :
           CalculateConfidence(polarity, subjectivity)

SpecConfidence == InitConfidence /\ [][NextConfidence]_vars

\* the polarities and subjectivities given to _detect_emotions lie on a grid
\* of EmotionSteps steps per unit, with the values next to the thresholds
EmotionSteps == 2

\* what _detect_emotions is called with: a text, a polarity and a
\* subjectivity on a grid that holds the thresholds of the boosts and the
\* next value above or below each.  The texts are
\* texts without a keyword, with keywords of one and of several emotions,
\* with a keyword twice, inside a longer word, in upper case, and one that
\* holds a keyword only once it is cleaned
EmotionInputs ==
    {<<t, polarity, subjectivity>> :
        t \in { <<"t", "h", "e">>,
             <<"G", "o", "o", "d">>,
             <<"g", "o", "o", "d", " ", "g", "o", "o", "d">>,
             <<"b", "a", "d">>,
             <<"b", "a", "d", "g", "e">>,
             <<"b", "<", "a", ">", "d">>,
             <<"b", "a", "d", " ", "m", "a", "d">>,
             <<"m", "a", "d", " ", "h", "a", "t", "e", " ", "s", "a", "d">>,
             <<"b", "e", "s", "t", " ", "h", "o", "p", "e">>,
             <<"w", "o", "w", " ", "s", "a", "f", "e", " ", "f", "e", "a", "r", " ",
               "g", "l", "a", "d", " ", "m", "a", "d">>,
             <<"h", "a", "r", "d", " ", "f", "e", "a", "r">> },
        polarity \in
            {(k * Unit) \div EmotionSteps : k \in (-EmotionSteps)..EmotionSteps}
            \cup {Unit \div 2, (Unit \div 2) + 1,
                  -(Unit \div 2), -(Unit \div 2) - 1},
        subjectivity \in
            {(k * Unit) \div EmotionSteps : k \in 0..EmotionSteps}
            \cup {(7 * Unit) \div 10, ((7 * Unit) \div 10) + 1}}

\* get_analyzer()._detect_emotions(text, blob, polarity, subjectivity)
DetectEmotions(text, polarity, subjectivity) ==
    /\ _analyzer # None
    /\ last' = [op |-> "_detect_emotions", text |-> text,
                polarity |-> polarity, subjectivity |-> subjectivity,
                raw_scores |-> RawScores(Lower(text), polarity, subjectivity),
                emotions |-> _detect_emotions(text, polarity, subjectivity)]
    /\ UNCHANGED <<_analyzer, input, fault, seen, session_state, now, trace>>

\* the caller holds a text, a polarity and a subjectivity; it analyzes the
\* text and detects the emotions of the three
SpecEmotions ==
    Start(EmotionInputs, {NoFault})
    /\ [][GetAnalyzer \/ Analyze(1)
          \/ DetectEmotions(input[1], input[2], input[3])]_vars

\* a review of 30 words: words the lexicon knows as positive and as negative,
\* several of them more than once and in both cases, and words it does not know
Corpus ==
    << <<"g", "o", "o", "d">>,
       <<"b", "a", "d">>,
       <<"f", "i", "l", "m">>,
       <<"G", "o", "o", "d">>,
       <<"b", "e", "s", "t">>,
       <<"h", "a", "r", "d">>,
       <<"p", "l", "o", "t">>,
       <<"b", "a", "d">>,
       <<"m", "e", "h">>,
       <<"g", "o", "o", "d">>,
       <<"h", "a", "r", "d">>,
       <<"s", "t", "o", "r", "y">>,
       <<"a", "c", "t", "o", "r">>,
       <<"b", "e", "s", "t">>,
       <<"m", "u", "s", "i", "c">>,
       <<"s", "c", "e", "n", "e">>,
       <<"h", "m", "m">>,
       <<"b", "a", "d">>,
       <<"B", "e", "s", "t">>,
       <<"m", "o", "v", "i", "e">>,
       <<"s", "o", "u", "n", "d">>,
       <<"l", "i", "g", "h", "t">>,
       <<"h", "a", "r", "d">>,
       <<"v", "o", "i", "c", "e">>,
       <<"b", "a", "d">>,
       <<"b", "a", "d">>,
       <<"g", "o", "o", "d">>,
       <<"p", "a", "c", "e">>,
       <<"t", "o", "n", "e">>,
       <<"c", "a", "s", "t">> >>

\* the texts of the keyword extraction: the passages of the review
KeywordTexts ==
    {JoinWords(SubSeq(Corpus, i, j)) : i, j \in 1..Len(Corpus)}

SpecKeywords ==
    Start({<<t>> : t \in KeywordTexts}, {NoFault}) /\ [][GetAnalyzer \/ Analyze(1)]_vars

\* the longest text of the cleaning, in characters
MaxChars == 6

\* the texts of the cleaning: all texts of up to MaxChars characters that
\* are a letter, the underscore, a character that is removed, or a blank; and
\* longer texts: blanks that meet when the markup between them is removed,
\* punctuation and digits, references, and tabs and newlines
CleaningTexts ==
    SeqsUpTo({"a", "_", "<", " "}, MaxChars) \cup
    { <<"a", "<", " ", "<", " ", "<", " ", "<", " ", "<", " ", "<", "b">>,
      <<"1", ".", "!", "?", ",", ";", ":", "-", "'", "G">>,
      <<"!", "!", "!", "!", "!", "!", "&", "l", "t", ";", "!">>,
      <<"a", "\n", "\n", "\n", "\n", "\n", "\t", "a", "a", "a", "a">>,
      <<"&", "a", "m", "p", ";", "l", "t", ";", "a", "a", "a", "a", "a", "a", "a">> }

\* analyzer.preprocess_text(text)
PreprocessText(text) ==
    /\ _analyzer # None
    /\ last' = [op |-> "preprocess_text", text |-> text,
                cleaned |-> preprocess_text(text)]
    /\ UNCHANGED <<_analyzer, input, fault, seen, session_state, now, trace>>

SpecPreprocess ==
    Start({<<t>> : t \in CleaningTexts}, {NoFault})
    /\ [][GetAnalyzer \/ PreprocessText(input[1])]_vars

\* the number of calls of a session
MaxCalls == 120

\* how the requests of a session arrive: gap seconds after one another, and
\* pause seconds after every burst-th request.  The gaps are below, at and
\* above the cooldown, and fill a minute with exactly 10 requests; the
\* pauses end just before and exactly when a minute or an hour has passed
\* since the first request of a full window, or, after 100 requests that
\* fill the minute and the hour, within the cooldown.
Arrivals ==
    [gap : {0, 1, 2, 3, 6}, burst : {10}, pause : {41, 42, 43}]
    \cup [gap : {2, 6}, burst : {105}, pause : {2975, 2976, 3391, 3392}]
    \cup [gap : {6}, burst : {100}, pause : {1}]

\* the clock moves on to the time of the next request
Wait ==
    /\ last.op \notin {"none", "wait"}
    /\ now' = now + (IF Len(trace) % input.burst = 0 THEN input.pause
                   ELSE input.gap)
    /\ last' = [op |-> "wait"]
    /\ UNCHANGED <<_analyzer, input, fault, seen, session_state, trace>>

\* RateLimiter.check_rate_limit()
CheckRateLimit ==
    /\ last.op # "check_rate_limit"
    /\ Len(trace) < MaxCalls
    /\ session_state' = check_rate_limit(session_state, now).session_state
    /\ last' = [op |-> "check_rate_limit",
                is_allowed |-> check_rate_limit(session_state, now).is_allowed,
                message |-> check_rate_limit(session_state, now).message,
                before |-> session_state]
    /\ trace' = Append(trace,
                       [event |-> "check_rate_limit", at |-> now,
                        is_allowed |-> check_rate_limit(session_state, now).is_allowed])
    /\ UNCHANGED <<_analyzer, input, fault, seen, now>>

SpecRateLimit == Start(Arrivals, {NoFault}) /\ [][CheckRateLimit \/ Wait]_vars

\* the number of presses of a button in a session
MaxPresses == 32

\* the sessions of the home screen.  The user presses Analyze on the texts
\* in turn, gap seconds after one another and pause seconds after every
\* burst-th press, and presses Clear History instead at the clear-th press.
\* The texts: valid ones, an empty one, markup that leaves nothing, markup
\* around words, an SQL keyword, a spam word, special characters, a script,
\* and a text of more than 100 characters.
HomeSessions ==
    [texts : { << <<"G", "o", "o", "d">>,
                <<>>,
                <<"<", "a", "b", ">">>,
                <<"b", "a", "d", " ", "<", "b", ">", "f", "i", "l", "m", "<", "/", "b", ">">>,
                <<"d", "r", "o", "p", " ", "i", "t">>,
                <<"p", "r", "i", "z", "e">>,
                <<"<", "<", "<", "<">>,
                <<"b", "e", "s", "t">>,
                <<"<", "s", "c", "r", "i", "p", "t", ">", "b", "a", "d", "<", "/", "s", "c", "r", "i", "p", "t", ">", "o", "k", " ", "g", "o", "o", "d">>,
                <<"g", "o", "o", "d", " ", "g", "o", "o", "d", " ", "g", "o", "o", "d", " ", "g", "o", "o", "d", " ", "g", "o", "o", "d", " ", "g", "o", "o", "d", " ", "g", "o", "o", "d", " ", "g", "o", "o", "d", " ", "g", "o", "o", "d", " ", "g", "o", "o", "d", " ", "g", "o", "o", "d", " ", "g", "o", "o", "d", " ", "g", "o", "o", "d", " ", "g", "o", "o", "d", " ", "g", "o", "o", "d", " ", "g", "o", "o", "d", " ", "g", "o", "o", "d", " ", "g", "o", "o", "d", " ", "g", "o", "o", "d", " ", "g", "o", "o", "d", " ", "g", "o", "o", "d", " ">> >> },
     gap : {1, 2, 6}, burst : {10}, pause : {42}, clear : {0, 7}]

\* the Analyze button is pressed on the next text
AnalyzeButton(text_input, r) ==
    /\ last.op \notin {"analyze_button", "clear_history"}
    /\ Len(trace) < MaxPresses
    /\ Len(trace) + 1 # input.clear \/ session_state.history = <<>>
    /\ session_state' = r.session_state
    /\ _analyzer' = IF r.analyzed /\ _analyzer = None THEN SentimentAnalyzer
                    ELSE _analyzer
    /\ last' = [op |-> "analyze_button", text_input |-> text_input,
                outcome |-> r.outcome, calls |-> r.calls,
                before |-> session_state]
    /\ trace' = Append(trace, [event |-> "analyze_button", at |-> now,
                               outcome |-> r.outcome, text |-> r.text,
                               result |-> r.result])
    /\ UNCHANGED <<input, fault, seen, now>>

\* the Clear History button, which is there when the history is not empty
ClearHistory ==
    /\ last.op \notin {"analyze_button", "clear_history"}
    /\ Len(trace) + 1 = input.clear
    /\ session_state.history # <<>>
    /\ session_state' = [session_state EXCEPT !.history = <<>>]
    /\ last' = [op |-> "clear_history"]
    /\ trace' = Append(trace, [event |-> "clear_history", at |-> now])
    /\ UNCHANGED <<_analyzer, input, fault, seen, now>>

SpecHome ==
    Start(HomeSessions, {NoFault, [item |-> 4, call |-> 2]})
    /\ [][\/ AnalyzeButton(
                input.texts[(Len(trace) % Len(input.texts)) + 1],
                AnalyzePressed(
                    session_state,
                    IF _analyzer = None THEN SentimentAnalyzer ELSE _analyzer,
                    input.texts[(Len(trace) % Len(input.texts)) + 1],
                    now,
                    IF fault.item = Len(trace) + 1 THEN fault.call ELSE 0))
          \/ ClearHistory
          \/ Wait]_vars

\* the requests of the API hold up to MaxTexts texts, or about 100
MaxTexts == 3

\* the bodies of the batch requests: short lists of texts, of which analyze
\* rejects the empty one and the one of markup only, lists of 100 and of 101
\* texts, with every choice of the two flags
BatchRequests ==
    [texts : SeqsUpTo(BatchTexts, MaxTexts)
             \cup {Repeat(<< <<"G", "o", "o", "d">> >>, 100),
                   Repeat(<< <<"G", "o", "o", "d">> >>, 101),
                   Repeat(<< <<"b", "a", "d">> >>, 99) \o << <<>> >>},
     include_emotions : BOOLEAN,
     include_keywords : BOOLEAN]

\* a client posts the request
PostBatch(request, response) ==
    /\ last = NoCall
    /\ last' = [op |-> "POST /api/v1/batch", request |-> request,
                response |-> response]
    /\ UNCHANGED <<_analyzer, input, fault, seen, session_state, now, trace>>

SpecApi ==
    Start(BatchRequests, {NoFault, [item |-> 2, call |-> 1]})
    /\ [][PostBatch(input, batch_analyze_endpoint(input, fault))]_vars

\* the number of events of a session of the logger
MaxEvents == 105

\* the sessions of the logger: events are logged gap seconds after one
\* another, pause seconds after every burst-th one, and after each of them
\* the last count logs are asked for
LoggerSessions ==
    [gap : {0, 1}, burst : {10}, pause : {5}, count : {-2, 0, 1, 10, 100, 101}]

\* SecurityLogger.log_event(event_type, details)
LogEvent(event_type, details) ==
    /\ last.op \in {"none", "wait"}
    /\ Len(trace) < MaxEvents
    /\ session_state' = log_event(session_state, now, event_type, details)
    /\ last' = [op |-> "log_event"]
    /\ trace' = Append(trace, [event |-> "log_event", at |-> now,
                               type |-> event_type, details |-> details])
    /\ UNCHANGED <<_analyzer, input, fault, seen, now>>

\* SecurityLogger.get_recent_logs(count)
GetRecentLogs(count) ==
    /\ last.op = "log_event"
    /\ last' = [op |-> "get_recent_logs", count |-> count,
                logs |-> get_recent_logs(session_state, count),
                before |-> session_state]
    /\ UNCHANGED <<_analyzer, input, fault, seen, session_state, now, trace>>

SpecLogger ==
    Start(LoggerSessions, {NoFault})
    /\ [][\/ LogEvent(<<"validation_error", "rate_limit", "analysis_success">>
                          [(Len(trace) % 3) + 1],
                      <<"event", Len(trace) + 1>>)
          \/ GetRecentLogs(input.count)
          \/ Wait]_vars

----------------------------------------------------------------------------
(* The claims *)

\* an analyze call has just ended
AnalyzeEnded == last.op = "analyze"

\* an analyze call has just returned a profile
AnalyzeReturned == AnalyzeEnded /\ last.outcome = "returned"

\* analyze has just raised ValueError(message)
Rejected(message) ==
    AnalyzeEnded /\ last.outcome = "ValueError" /\ last.error = message

C2_NoEngineBeforeReject ==
    AnalyzeEnded /\ last.outcome = "ValueError" => last.engine_calls = <<>>

\* a text has passed the first three checks and was rejected for being empty
\* after preprocessing
C2_Witness ==
    Rejected(MsgNoContent) /\ HasContent(last.text) /\ last.engine_calls = <<>>

\* a batch_analyze call has just ended
BatchEnded == last.op = "batch_analyze"

\* a batch_analyze call has just returned its list
BatchReturned == BatchEnded /\ last.outcome = "returned"

\* item is the record batch_analyze gives for a text that analyze, called on
\* it alone with an engine that works, answers with r
IsRecordOf(item, text, r) ==
    IF r.outcome = "ValueError"
    THEN item = [original_text |-> text, error |-> r.error]
    ELSE /\ r.outcome = "returned"
         /\ DOMAIN item = DOMAIN r.profile \cup {"original_text"}
         /\ item.original_text = text
         /\ \A field \in DOMAIN r.profile : item[field] = r.profile[field]

\* C3: with an engine that works batch_analyze returns; the list it returns
\* is as long as its input, and its i-th record is, for a text that analyze
\* accepts, the profile analyze returns for that text alone plus original_text,
\* and for a text that analyze rejects, original_text and the message of the
\* ValueError.  A rejected text neither ends the call nor changes the record
\* of another text.
C3_BatchRecords ==
    /\ BatchEnded /\ fault = NoFault => BatchReturned
    /\ BatchReturned =>
           /\ Len(last.results) = Len(last.texts)
           /\ \A i \in 1..Len(last.texts) :
                  IsRecordOf(last.results[i], last.texts[i],
                             analyze(SentimentAnalyzer, last.texts[i], 0))

\* a batch whose first text was rejected and whose second was profiled
C3_Witness ==
    /\ BatchReturned
    /\ Len(last.results) = 2
    /\ "error" \in DOMAIN last.results[1]
    /\ "label" \in DOMAIN last.results[2]

\* the engine raises during analyze(input[i]): on one of the calls that
\* analyze makes for that text
EngineRaisesFor(i) ==
    /\ fault.item = i
    /\ analyze(SentimentAnalyzer, input[i], 0).outcome = "returned"
    /\ fault.call <= Len(analyze(SentimentAnalyzer, input[i], 0).engine_calls)

\* C4: when the engine raises during analyze, on whichever of its calls, the
\* call ends with that exception and returns no profile; when it raises for
\* an item of batch_analyze, the whole batch call ends with it: no list is
\* returned, and no error record stands for the item.
C4_EngineFailurePropagates ==
    /\ AnalyzeEnded /\ (\E i \in 1..Len(input) :
                            last.text = input[i] /\ EngineRaisesFor(i)
                            /\ \A j \in 1..Len(input) : input[j] = input[i] => j = i)
       => last.outcome = "EngineFailure" /\ last.profile = [label |-> "None"]
    /\ AnalyzeEnded /\ last.outcome = "EngineFailure"
       => last.profile = [label |-> "None"] /\ last.engine_calls # <<>>
    /\ BatchEnded /\ (\E i \in 1..Len(input) : EngineRaisesFor(i))
       => last.outcome = "EngineFailure" /\ last.results = <<>>

\* the engine raised for the second item of a batch, after the first item
\* was done: the call ended with the failure and without a list
C4_Witness ==
    /\ BatchEnded
    /\ last.outcome = "EngineFailure"
    /\ fault.item = 2
    /\ last.results = <<>>

OneTenth == Unit \div 10

\* the label of a profile agrees with polarity p under the thresholds 0.1 and
\* -0.1, both inclusive
LabelAgrees(profile, p) ==
    /\ profile.label \in {"Positive", "Negative", "Neutral"}
    /\ profile.label = "Positive" <=> p >= OneTenth
    /\ profile.label = "Negative" <=> p <= -OneTenth
    /\ profile.label = "Neutral" <=> (-OneTenth < p /\ p < OneTenth)

\* polarity is in [-1, 1] and subjectivity in [0, 1]
InRanges(profile) ==
    /\ -Unit <= profile.polarity /\ profile.polarity <= Unit
    /\ 0 <= profile.subjectivity /\ profile.subjectivity <= Unit

\* C6 as stated: in every returned profile polarity and subjectivity are in
\* range and the label agrees with the polarity field of the profile.
C6_LabelAgreesWithField ==
    AnalyzeReturned =>
        InRanges(last.profile) /\ LabelAgrees(last.profile, last.profile.polarity)

\* the polarity field of profile is p rounded to 3 decimals, and its label
\* is within the rounding of the field
FieldRounds(profile, p) ==
    /\ profile.polarity = Round3(p)
    /\ profile.label = "Positive" => profile.polarity >= OneTenth
    /\ profile.label = "Negative" => profile.polarity <= -OneTenth
    /\ profile.label = "Neutral" =>
           -OneTenth <= profile.polarity /\ profile.polarity <= OneTenth

\* C6: in every returned profile polarity and subjectivity are in range; the
\* label agrees with the polarity the engine gave for the cleaned text, not
\* yet rounded, of which the polarity field is the rounding to 3 decimals: a
\* Positive profile has a field of at least 0.1, a Negative one of at most
\* -0.1, and a Neutral one a field in [-0.1, 0.1], ends included.
C6_LabelAgreesWithEngine ==
    AnalyzeReturned =>
        /\ InRanges(last.profile)
        /\ LabelAgrees(last.profile, EnginePolarity(preprocess_text(last.text)))
        /\ FieldRounds(last.profile, EnginePolarity(preprocess_text(last.text)))

\* a Neutral profile whose polarity field is 0.1
C6_Witness ==
    /\ AnalyzeReturned
    /\ last.profile.label = "Neutral"
    /\ last.profile.polarity = OneTenth

\* a _calculate_confidence call has just returned
ConfidenceCalled == last.op = "_calculate_confidence"

\* |polarity| * 100 * (0.3 + 0.7 * subjectivity) clamped to [0, 100], exactly,
\* in units of 1/(1000 * Unit)
ClampedProduct(polarity, subjectivity) ==
    Max2(0, Min2(100000 * Unit,
                 Abs(polarity) * (10000 \div Unit) * (3 * Unit + 7 * subjectivity)))

\* c is value / d rounded to the nearest integer, a tie going to the even one
IsRounding(c, value, d) ==
    /\ 2 * Abs(c * d - value) <= d
    /\ 2 * Abs(c * d - value) = d => c % 2 = 0

\* C7: for polarity in [-1, 1] and subjectivity in [0, 1]
\* _calculate_confidence returns
\* round(clamp(|polarity| * 100 * (0.3 + 0.7 * subjectivity), 0, 100), 2);
\* the result is in [0, 100], is 0 for polarity 0, and is 80.00 for polarity
\* 0.8 and subjectivity 1.0.
C7_ConfidenceFormula ==
    ConfidenceCalled =>
        /\ IsRounding(last.confidence,
                      ClampedProduct(last.polarity, last.subjectivity), 10 * Unit)
        /\ 0 <= last.confidence /\ last.confidence <= 100 * 100
        /\ last.polarity = 0 => last.confidence = 0
        /\ last.polarity = 8 * OneTenth /\ last.subjectivity = Unit
           => last.confidence = 80 * 100

\* the confidence of polarity 0.8 and subjectivity 1.0 has been computed
C7_Witness ==
    /\ ConfidenceCalled
    /\ last.polarity = 8 * OneTenth
    /\ last.subjectivity = Unit
    /\ last.confidence = 80 * 100

\* the word is longer than 2 characters and its own polarity is not 0
Qualifies(word) == Len(word) > 2 /\ EnginePolarity(word) # 0

\* the positions of the words that qualify and that are w in lower case
OccurrencesOf(w, words) ==
    {k \in 1..Len(words) : Qualifies(words[k]) /\ Lower(words[k]) = w}

\* the positions of the entries for the word w
EntriesOf(w, entries) == {e \in 1..Len(entries) : entries[e].word = w}

\* the entries are, word by word, as many as the qualifying words
EntriesMatchTokens(entries, words) ==
    /\ Len(entries) = Cardinality({k \in 1..Len(words) : Qualifies(words[k])})
    /\ \A k \in 1..Len(words) :
           Cardinality(EntriesOf(Lower(words[k]), entries))
               = Cardinality(OccurrencesOf(Lower(words[k]), words))
    /\ \A e \in 1..Len(entries) :
           /\ OccurrencesOf(entries[e].word, words) # {}
           /\ Len(entries[e].word) > 2
           /\ entries[e].impact # 0

\* C8: word_sentiments has exactly one entry for each occurrence of a token
\* of the cleaned text that is longer than 2 characters and whose own
\* polarity is not 0, and no other entry; a word that occurs twice has two
\* entries.
C8_OneEntryPerOccurrence ==
    AnalyzeReturned =>
        EntriesMatchTokens(last.profile.word_sentiments,
                           Tokens(preprocess_text(last.text)))

\* a profile with two entries for the same word
C8_Witness ==
    /\ AnalyzeReturned
    /\ Len(last.profile.word_sentiments) = 2
    /\ last.profile.word_sentiments[1].word = last.profile.word_sentiments[2].word

\* no entry has a smaller impact than the entry behind it
NonIncreasingImpact(entries) ==
    \A e \in 1..(Len(entries) - 1) : entries[e].impact >= entries[e + 1].impact

\* the words of the entries of impact v, in the order of the entries
EntryWordsOfImpact(v, entries) ==
    Select([e \in 1..Len(entries) |-> entries[e].word],
           [e \in 1..Len(entries) |-> entries[e].impact = v])

\* the qualifying words whose own polarity has absolute value v, in lower
\* case, in the order of the text
TokenWordsOfImpact(v, words) ==
    Select([k \in 1..Len(words) |-> Lower(words[k])],
           [k \in 1..Len(words) |->
               Qualifies(words[k]) /\ Abs(EnginePolarity(words[k])) = v])

\* C9: word_sentiments is in the order of non-increasing impact, and entries
\* of equal impact are in the order in which their tokens occur in the
\* cleaned text.
C9_SortedStable ==
    AnalyzeReturned =>
        /\ NonIncreasingImpact(last.profile.word_sentiments)
        /\ \A e \in 1..Len(last.profile.word_sentiments) :
               EntryWordsOfImpact(last.profile.word_sentiments[e].impact,
                                  last.profile.word_sentiments)
                   = TokenWordsOfImpact(last.profile.word_sentiments[e].impact,
                                        Tokens(preprocess_text(last.text)))

\* a profile with two entries of equal impact for different words
C9_Witness ==
    /\ AnalyzeReturned
    /\ Len(last.profile.word_sentiments) = 2
    /\ last.profile.word_sentiments[1].impact = last.profile.word_sentiments[2].impact
    /\ last.profile.word_sentiments[1].word # last.profile.word_sentiments[2].word

\* the sentiment of entry is Positive iff p > 0 and Negative iff p < 0
SentimentBySign(entry, p) ==
    /\ entry.sentiment = "Positive" <=> p > 0
    /\ entry.sentiment = "Negative" <=> p < 0

\* C10 as stated: in every entry of word_sentiments impact is the absolute
\* value of the polarity field of the entry, and sentiment goes by the sign
\* of that field.
C10_ImpactOfField ==
    AnalyzeReturned =>
        \A e \in 1..Len(last.profile.word_sentiments) :
            /\ last.profile.word_sentiments[e].impact
                   = Abs(last.profile.word_sentiments[e].polarity)
            /\ SentimentBySign(last.profile.word_sentiments[e],
                               last.profile.word_sentiments[e].polarity)

\* entry is made of p, the polarity of its word before rounding: impact is
\* |p|, the polarity field is p rounded to 3 decimals, so that impact and the
\* absolute value of the field differ by 0.0005 at most, and sentiment goes
\* by the sign of p, so that the field of a Positive entry is 0 or more and
\* that of a Negative entry 0 or less
EntryFrom(entry, p) ==
    /\ entry.impact = Abs(p)
    /\ entry.polarity = Round3(p)
    /\ SentimentBySign(entry, p)
    /\ 2 * Abs(entry.impact - Abs(entry.polarity)) <= Unit \div 1000
    /\ entry.sentiment = "Positive" => entry.polarity >= 0
    /\ entry.sentiment = "Negative" => entry.polarity <= 0
    /\ entry.sentiment \in {"Positive", "Negative"}

\* C10: every entry of word_sentiments is made of the polarity of a token of
\* its word as the engine gave it, before rounding: impact is its absolute
\* value, sentiment goes by its sign, and the polarity field is its rounding
\* to 3 decimals.
C10_ImpactOfWordPolarity ==
    AnalyzeReturned =>
        \A e \in 1..Len(last.profile.word_sentiments) :
            \E k \in OccurrencesOf(last.profile.word_sentiments[e].word,
                                   Tokens(preprocess_text(last.text))) :
                EntryFrom(last.profile.word_sentiments[e],
                          EnginePolarity(Tokens(preprocess_text(last.text))[k]))

\* a profile with an entry whose impact is not the absolute value of its
\* polarity field
C10_Witness ==
    /\ AnalyzeReturned
    /\ \E e \in 1..Len(last.profile.word_sentiments) :
           last.profile.word_sentiments[e].impact
               # Abs(last.profile.word_sentiments[e].polarity)

\* a call has just returned the emotions of a text
EmotionsGiven == last.op = "_detect_emotions" \/ AnalyzeReturned

\* the emotions it returned
LastEmotions ==
    IF last.op = "_detect_emotions" THEN last.emotions ELSE last.profile.emotions

\* the polarity they were detected with: the one given to _detect_emotions,
\* or the one the engine gave analyze for the cleaned text
LastPolarity ==
    IF last.op = "_detect_emotions" THEN last.polarity
    ELSE EnginePolarity(preprocess_text(last.text))

LastSubjectivity ==
    IF last.op = "_detect_emotions" THEN last.subjectivity
    ELSE EngineSubjectivity(preprocess_text(last.text))

\* the names of the 8 emotions
EmotionNames ==
    {"joy", "sadness", "anger", "fear", "surprise", "disgust", "trust",
     "anticipation"}

\* keyword occurs in text
Occurs(keyword, text) ==
    \E i \in 1..(Len(text) - Len(keyword) + 1) :
        SubSeq(text, i, i + Len(keyword) - 1) = keyword

\* the keywords of emotion that occur in the text in lower case
OccurringIn(emotion, text_lower) ==
    {emotion_keywords[emotion][k] :
        k \in {n \in 1..Len(emotion_keywords[emotion]) :
                  Occurs(emotion_keywords[emotion][n], text_lower)}}

KeywordsIn(emotion, text) == OccurringIn(emotion, Lower(text))

\* no keyword of any emotion occurs in the text, and polarity and
\* subjectivity are within the thresholds of the boosts
Quiet(text, polarity, subjectivity) ==
    /\ \A emotion \in EmotionNames : KeywordsIn(emotion, text) = {}
    /\ polarity <= Unit \div 2
    /\ polarity >= -(Unit \div 2)
    /\ subjectivity <= (7 * Unit) \div 10

\* every score is 0.0 and no emotion is detected: primary_emotion is "Joy"
NothingDetected(emotions) ==
    /\ \A emotion \in EmotionNames : emotions.emotion_scores[emotion] = 0
    /\ emotions.primary_emotion = "Joy"
    /\ emotions.confidence = 0
    /\ emotions.top_emotions = <<>>
    /\ emotions.emotion_detected = FALSE

\* C11: emotion_scores has exactly the 8 keys joy, sadness, anger, fear,
\* surprise, disgust, trust, anticipation, each with a value in [0, 100];
\* when no keyword occurs in the text and no boost applies, every score is
\* 0.0, primary_emotion is "Joy", confidence is 0, top_emotions is empty and
\* emotion_detected is False.
C11_EightScores ==
    EmotionsGiven =>
        /\ DOMAIN LastEmotions.emotion_scores = EmotionNames
        /\ \A emotion \in EmotionNames :
               /\ 0 <= LastEmotions.emotion_scores[emotion]
               /\ LastEmotions.emotion_scores[emotion] <= 100 * 10
        /\ Quiet(last.text, LastPolarity, LastSubjectivity)
           => NothingDetected(LastEmotions)

\* the emotions of a text without keywords were asked for with a polarity
\* and a subjectivity exactly at the thresholds of the boosts
C11_Witness ==
    /\ last.op = "_detect_emotions"
    /\ Quiet(last.text, last.polarity, last.subjectivity)
    /\ last.polarity = Unit \div 2
    /\ last.subjectivity = (7 * Unit) \div 10
    /\ NothingDetected(last.emotions)

\* the boost of emotion in units of 1/(2*Unit): 3 and 2 times a polarity
\* above 0.5 for joy and trust, 2, 2 and 1.5 times the absolute value of a
\* polarity below -0.5 for sadness, anger and disgust, 1.5 times a
\* subjectivity above 0.7 for surprise and anticipation
BoostOf(emotion, polarity, subjectivity) ==
    CASE emotion = "joy" /\ polarity > Unit \div 2 -> 3 * 2 * polarity
      [] emotion = "trust" /\ polarity > Unit \div 2 -> 2 * 2 * polarity
      [] emotion = "sadness" /\ polarity < -(Unit \div 2) -> 2 * 2 * (-polarity)
      [] emotion = "anger" /\ polarity < -(Unit \div 2) -> 2 * 2 * (-polarity)
      [] emotion = "disgust" /\ polarity < -(Unit \div 2) -> 3 * (-polarity)
      [] emotion = "surprise" /\ subjectivity > (7 * Unit) \div 10 -> 3 * subjectivity
      [] emotion = "anticipation" /\ subjectivity > (7 * Unit) \div 10 -> 3 * subjectivity
      [] OTHER -> 0

\* the number of keywords of emotion that occur in the text, each counted
\* once, plus the boost
RawScoreOf(emotion, text, polarity, subjectivity) ==
    Cardinality(KeywordsIn(emotion, text)) * 2 * Unit
    + BoostOf(emotion, polarity, subjectivity)

RawScoresOf(text, polarity, subjectivity) ==
    [emotion \in EmotionNames |->
        RawScoreOf(emotion, text, polarity, subjectivity)]

\* C12: before normalisation, the score of an emotion is the number of its
\* keywords that occur as a substring of the lowercased original input, each
\* counted at most once, plus the boosts: joy += 3p and trust += 2p only when
\* p > 0.5; sadness += 2|p|, anger += 2|p| and disgust += 1.5|p| only when
\* p < -0.5; surprise and anticipation += 1.5s only when s > 0.7; no boost at
\* exactly 0.5, -0.5 or 0.7. analyze detects the emotions of the text it was
\* given, not of the cleaned text, with the polarity and subjectivity of the
\* engine.
C12_RawScores ==
    /\ last.op = "_detect_emotions"
       => /\ last.raw_scores
               = RawScoresOf(last.text, last.polarity, last.subjectivity)
          /\ last.emotions = EmotionsOf(last.raw_scores)
    /\ AnalyzeReturned
       => last.profile.emotions
            = EmotionsOf(RawScoresOf(last.text, LastPolarity, LastSubjectivity))

\* a text in which a keyword of joy occurs twice got the joy boost for a
\* polarity just above 0.5: the score of joy is 1 + 3p
C12_Witness ==
    /\ last.op = "_detect_emotions"
    /\ last.polarity = (Unit \div 2) + 1
    /\ \E i, j \in 1..Len(last.text) :
           /\ i < j
           /\ StartsAt(Lower(last.text), i, <<"g", "o", "o", "d">>)
           /\ StartsAt(Lower(last.text), j, <<"g", "o", "o", "d">>)
    /\ last.raw_scores.joy = 2 * Unit + 6 * last.polarity

\* the place of emotion in the order of the keys
KeyIndex(emotion) == CHOOSE i \in 1..Len(Emotions) : Emotions[i] = emotion

\* a comes before b when sorted by descending score, ties in the order of
\* the keys
ComesBefore(scores, a, b) ==
    \/ scores[a] > scores[b]
    \/ scores[a] = scores[b] /\ KeyIndex(a) < KeyIndex(b)

\* the number of emotions that come before emotion
Rank(scores, emotion) ==
    Cardinality({a \in EmotionNames : ComesBefore(scores, a, emotion)})

\* emotions is the result of _detect_emotions for its own emotion_scores
RanksAgree(emotions, scores) ==
    /\ \E emotion \in EmotionNames :
           /\ Rank(scores, emotion) = 0
           /\ emotions.primary_emotion = Capitalize[emotion]
           /\ emotions.confidence = scores[emotion]
    /\ Len(emotions.top_emotions)
         = Min2(3, Cardinality({a \in EmotionNames : scores[a] > 0}))
    /\ \A k \in 1..Len(emotions.top_emotions) :
           /\ emotions.top_emotions[k].emotion \in EmotionNames
           /\ emotions.top_emotions[k].score
                = scores[emotions.top_emotions[k].emotion]
           /\ emotions.top_emotions[k].score > 0
           /\ Rank(scores, emotions.top_emotions[k].emotion) = k - 1
    /\ emotions.emotion_detected <=> emotions.confidence > 20 * 10

\* C13: primary_emotion is the capitalised name of the first emotion, in the
\* order joy, sadness, anger, fear, surprise, disgust, trust, anticipation,
\* that attains the maximum normalised score, and confidence is that score;
\* top_emotions holds the at most 3 emotions of the greatest scores, all
\* with score > 0, in descending order of score with ties in that order;
\* emotion_detected is true iff confidence > 20.
C13_PrimaryAndTop ==
    EmotionsGiven => RanksAgree(LastEmotions, LastEmotions.emotion_scores)

\* more than 3 emotions have a positive score and two of them share the
\* maximum
C13_Witness ==
    /\ EmotionsGiven
    /\ Cardinality({a \in EmotionNames :
                        LastEmotions.emotion_scores[a] > 0}) > 3
    /\ Len(LastEmotions.top_emotions) = 3
    /\ LastEmotions.top_emotions[2].score = LastEmotions.confidence
    /\ LastEmotions.top_emotions[3].score < LastEmotions.confidence

\* the places of the entries of word_sentiments with the given sentiment
PlacesOf(word_sentiments, sentiment) ==
    {k \in 1..Len(word_sentiments) : word_sentiments[k].sentiment = sentiment}

\* the n-th smallest number of a set of numbers
NthOf(places, n) ==
    CHOOSE i \in places : Cardinality({j \in places : j < i}) = n - 1

\* listed holds the entries of word_sentiments at the first 5 of the places,
\* in order, and total is the number of the places
ListsFirstFive(listed, total, word_sentiments, places) ==
    /\ Len(listed) = Min2(5, Cardinality(places))
    /\ \A n \in 1..Len(listed) : listed[n] = word_sentiments[NthOf(places, n)]
    /\ total = Cardinality(places)

SummaryAgrees(summary, word_sentiments) ==
    /\ ListsFirstFive(summary.positive, summary.total_positive, word_sentiments,
                      PlacesOf(word_sentiments, "Positive"))
    /\ ListsFirstFive(summary.negative, summary.total_negative, word_sentiments,
                      PlacesOf(word_sentiments, "Negative"))
    /\ summary.total_positive + summary.total_negative = Len(word_sentiments)

\* C14: in a returned profile, sentiment_keywords partitions word_sentiments
\* by sentiment: positive (negative) holds the first min(5, n) Positive
\* (Negative) entries in the order of word_sentiments, total_positive and
\* total_negative are the full counts, and their sum is the length of
\* word_sentiments.
C14_KeywordSummary ==
    AnalyzeReturned
    => SummaryAgrees(last.profile.sentiment_keywords, last.profile.word_sentiments)

\* a text with more than 5 positive and more than 5 negative words was
\* analyzed: both lists are cut to 5
C14_Witness ==
    /\ AnalyzeReturned
    /\ last.profile.sentiment_keywords.total_positive > 5
    /\ last.profile.sentiment_keywords.total_negative > 5
    /\ Len(last.profile.sentiment_keywords.positive) = 5
    /\ Len(last.profile.sentiment_keywords.negative) = 5

\* the places of the tokens longer than 3 characters that are word in lower
\* case
LongPlaces(tokens, word) ==
    {k \in 1..Len(tokens) : Len(tokens[k]) > 3 /\ Lower(tokens[k]) = word}

\* the place of the first of them
FirstPlace(places) == CHOOSE i \in places : \A j \in places : i <= j

\* a is more frequent than b, or as frequent and seen first
MoreFrequent(tokens, a, b) ==
    \/ Cardinality(LongPlaces(tokens, a)) > Cardinality(LongPlaces(tokens, b))
    \/ /\ Cardinality(LongPlaces(tokens, a)) = Cardinality(LongPlaces(tokens, b))
       /\ FirstPlace(LongPlaces(tokens, a)) < FirstPlace(LongPlaces(tokens, b))

\* frequent_words holds the 10 most frequent of the long words, in order
IsMostFrequent(frequent_words, tokens, long_words) ==
    /\ Len(frequent_words) = Min2(10, Cardinality(long_words))
    /\ \A n \in 1..Len(frequent_words) :
           /\ frequent_words[n] \in long_words
           /\ Cardinality({a \in long_words :
                              MoreFrequent(tokens, a, frequent_words[n])}) = n - 1

KeywordSetAgrees(keywords, tokens, word_sentiments) ==
    /\ IsMostFrequent(keywords.frequent_words, tokens,
                      {Lower(tokens[k]) : k \in {j \in 1..Len(tokens) : Len(tokens[j]) > 3}})
    /\ Len(keywords.sentiment_keywords) = Min2(10, Len(word_sentiments))
    /\ \A n \in 1..Len(keywords.sentiment_keywords) :
           keywords.sentiment_keywords[n] = word_sentiments[n].word
    /\ keywords.total_keywords
         = Cardinality({keywords.frequent_words[n] :
                            n \in 1..Len(keywords.frequent_words)}
                       \cup {keywords.sentiment_keywords[n] :
                                 n \in 1..Len(keywords.sentiment_keywords)})
    /\ keywords.total_keywords <= 20
    /\ keywords.total_keywords
         <= Len(keywords.frequent_words) + Len(keywords.sentiment_keywords)

\* C15: in the advanced_keywords of a returned profile, frequent_words is
\* the at most 10 most frequent lowercased tokens of length > 3, ties in
\* first-seen order; sentiment_keywords is the word field of the first
\* min(10, n) entries of word_sentiments, duplicates kept; total_keywords is
\* the number of distinct strings in the two lists, at most 20 and at most
\* the sum of their lengths.
C15_KeywordSet ==
    AnalyzeReturned
    => KeywordSetAgrees(last.profile.advanced_keywords,
                        Tokens(preprocess_text(last.text)),
                        last.profile.word_sentiments)

\* both lists are full, sentiment_keywords repeats a word, the lists share
\* a word, and the first frequent word was not the first long word seen
C15_Witness ==
    /\ AnalyzeReturned
    /\ Len(last.profile.advanced_keywords.frequent_words) = 10
    /\ Len(last.profile.advanced_keywords.sentiment_keywords) = 10
    /\ Len(last.profile.word_sentiments) > 10
    /\ last.profile.advanced_keywords.sentiment_keywords[1]
         = last.profile.advanced_keywords.sentiment_keywords[2]
    /\ last.profile.advanced_keywords.total_keywords < 20
    /\ last.profile.advanced_keywords.frequent_words[1] # <<"f", "i", "l", "m">>
    /\ SubSeq(last.text, 1, 4) = <<"f", "i", "l", "m">>

\* preprocess_text has just returned
Cleaned == last.op = "preprocess_text"

\* the text after HTML decoding and whitespace collapsing
Decoded(text) == Strip(CollapseWhitespace(HtmlUnescape(text)))

\* the letters and digits of the texts
Alphanumerics == LowerLetters \cup UpperLetters \cup {"1"}

\* the characters of text at the given places, in order
CharsAt(text, places) ==
    [k \in 1..Cardinality(places) |-> text[NthOf(places, k)]]

\* text without the characters that are not in kept
Keeping(text, kept) == CharsAt(text, {i \in 1..Len(text) : text[i] \in kept})

\* every character of text is in kept
OnlyChars(text, kept) == \A i \in 1..Len(text) : text[i] \in kept

\* the original statement of C16: the output of preprocess_text contains no
\* character other than alphanumeric characters, whitespace and the eight
\* punctuation characters . ! ? , ; : - '
C16_OnlyAlphanumerics ==
    Cleaned
    => OnlyChars(last.cleaned,
                 Alphanumerics \cup WhitespaceChars \cup KeptPunctuation)

\* C16: the output of preprocess_text contains no character other than
\* alphanumeric characters, the underscore, whitespace and the eight
\* punctuation characters . ! ? , ; : - ' : every other character of the
\* HTML-decoded, whitespace-collapsed text is removed, and these are kept
\* until the repeated characters are limited.
C16_OnlyWordChars ==
    Cleaned
    => /\ OnlyChars(last.cleaned,
                    Alphanumerics \cup {"_"} \cup WhitespaceChars
                        \cup KeptPunctuation)
       /\ last.cleaned
            = LimitRepeats(Keeping(Decoded(last.text),
                                   Alphanumerics \cup {"_"} \cup WhitespaceChars
                                       \cup KeptPunctuation))

\* a text with markup and an underscore was cleaned: the markup is gone and
\* the underscore is still there
C16_Witness ==
    /\ Cleaned
    /\ \E i \in 1..Len(last.text) : last.text[i] = "<"
    /\ \E i \in 1..Len(last.cleaned) : last.cleaned[i] = "_"

\* the places where a maximal run of one character starts
RunStarts(text) ==
    {i \in 1..Len(text) : i = 1 \/ text[i - 1] # text[i]}

\* the length of the run that starts at i
RunLength(text, i) ==
    (CHOOSE j \in (i + 1)..(Len(text) + 1) :
         /\ j = Len(text) + 1 \/ text[j] # text[i]
         /\ \A k \in i..(j - 1) : text[k] = text[i]) - i

\* after has the runs of before, in order, a run of 5 or more cut to 3
RunsLimited(before, after) ==
    /\ Cardinality(RunStarts(after)) = Cardinality(RunStarts(before))
    /\ \A n \in 1..Cardinality(RunStarts(before)) :
           /\ after[NthOf(RunStarts(after), n)]
                = before[NthOf(RunStarts(before), n)]
           /\ RunLength(after, NthOf(RunStarts(after), n))
                = IF RunLength(before, NthOf(RunStarts(before), n)) >= 5 THEN 3
                  ELSE RunLength(before, NthOf(RunStarts(before), n))

\* C17: preprocess_text replaces every maximal run of 5 or more identical
\* consecutive characters by exactly 3 of that character and leaves runs of
\* 1 to 4 unchanged, so its output never contains 5 or more identical
\* consecutive characters; this step runs last, on the HTML-decoded,
\* whitespace-collapsed and filtered text.
C17_RunsLimited ==
    Cleaned
    => /\ RunsLimited(RemoveDangerous(Decoded(last.text)), last.cleaned)
       /\ \A i \in RunStarts(last.cleaned) : RunLength(last.cleaned, i) < 5

\* a run of 5 or more that exists only once the markup inside it is removed
\* was cut to 3
C17_Witness ==
    /\ Cleaned
    /\ \A i \in RunStarts(Decoded(last.text)) :
           RunLength(Decoded(last.text), i) < 5
    /\ \E i \in RunStarts(RemoveDangerous(Decoded(last.text))) :
           RunLength(RemoveDangerous(Decoded(last.text)), i) >= 5
    /\ \E i \in RunStarts(last.cleaned) : RunLength(last.cleaned, i) = 3

\* the times of the calls of check_rate_limit that returned allowed
AllowedTimes ==
    {trace[k].at : k \in {n \in 1..Len(trace) :
                             /\ trace[n].event = "check_rate_limit"
                             /\ trace[n].is_allowed}}

\* the allowed calls of the window of the given length that starts at from.
\* No two allowed calls are made at the same time, so the times count them.
AllowedIn(from, length) ==
    Cardinality({t \in AllowedTimes : from <= t /\ t < from + length})

\* C18: after any sequence of check_rate_limit calls within one session, the
\* number of calls that returned allowed within any window of 60 seconds
\* (from a time t up to, not including, t + 60) is at most 10, and within any
\* window of 3600 seconds at most 100.  A window that holds an allowed call
\* holds no more than the window of the same length that starts at its first.
C18_WindowLimits ==
    /\ Cardinality(AllowedTimes)
         = Cardinality({n \in 1..Len(trace) :
                           /\ trace[n].event = "check_rate_limit"
                           /\ trace[n].is_allowed})
    /\ \A t \in AllowedTimes :
           /\ AllowedIn(t, 60) <= MAX_REQUESTS_PER_MINUTE
           /\ AllowedIn(t, 3600) <= MAX_REQUESTS_PER_HOUR

\* a call was rejected for the minute limit and a later one for the hour
\* limit, with 10 allowed calls in one minute and 100 in one hour
C18_Witness ==
    /\ last.op = "check_rate_limit"
    /\ last.message = "Hourly limit reached. Please try again later."
    /\ \E t \in AllowedTimes : AllowedIn(t, 60) = MAX_REQUESTS_PER_MINUTE
    /\ \E t \in AllowedTimes : AllowedIn(t, 3600) = MAX_REQUESTS_PER_HOUR

\* the places in the trace of the analyses that succeeded since the history
\* was last cleared
SuccessesSinceClear ==
    {n \in 1..Len(trace) :
        /\ trace[n].event = "analyze_button"
        /\ trace[n].outcome = "analysis_success"
        /\ \A m \in (n + 1)..Len(trace) : trace[m].event # "clear_history"}

\* the n-th greatest number of a set of numbers
NthLast(places, n) ==
    CHOOSE i \in places : Cardinality({j \in places : j > i}) = n - 1

\* entry is the history entry of the analysis that the trace holds as event
IsEntryOf(entry, event) ==
    /\ entry.text = IF Len(event.text) > 100
                    THEN SubSeq(event.text, 1, 100) \o <<".", ".", ".">>
                    ELSE event.text
    /\ entry.result = event.result
    /\ entry.timestamp = event.at

\* history holds the analyses at the last 10 of the places, the last first
HoldsLastTen(history, places) ==
    /\ Len(history) <= 10
    /\ Len(history) = Min2(10, Cardinality(places))
    /\ \A k \in 1..Len(history) : IsEntryOf(history[k], trace[NthLast(places, k)])
    /\ \A k \in 1..(Len(history) - 1) :
           history[k].timestamp >= history[k + 1].timestamp

\* C19: after any sequence of presses of Analyze and Clear History in the
\* home screen, the history of the session holds at most 10 entries, newest
\* first, and they are exactly the (up to 10) most recent analyses that
\* succeeded since the history was last cleared; an 11th analysis evicts the
\* oldest entry.
C19_HistoryLastTen == HoldsLastTen(session_state.history, SuccessesSinceClear)

\* the history was cleared, more than 10 analyses have succeeded since, with
\* rejected presses between them, and the last press added an entry
C19_Witness ==
    /\ last.op = "analyze_button"
    /\ last.outcome = "analysis_success"
    /\ Len(last.before.history) = 10
    /\ Cardinality(SuccessesSinceClear) > 10
    /\ \E n \in 1..Len(trace) : trace[n].event = "clear_history"
    /\ \E n \in 1..Len(trace) :
           /\ n > NthLast(SuccessesSinceClear, 10)
           /\ trace[n].event = "analyze_button"
           /\ trace[n].outcome # "analysis_success"

\* the last call was a batch request that the request model accepted
BatchAccepted ==
    /\ last.op = "POST /api/v1/batch"
    /\ Len(last.request.texts) \in 1..100

\* the response holds one result per text of the request, in their order
OneResultPerText(request, response) ==
    /\ response.status = 200
    /\ Len(response.results) = Len(request.texts)
    /\ response.total_processed = Len(request.texts)
    /\ \A i \in 1..Len(request.texts) :
           /\ analyze(SentimentAnalyzer, request.texts[i], 0).outcome = "returned"
           /\ response.results[i] =
                  Filtered(request, analyze(SentimentAnalyzer, request.texts[i], 0).profile)

\* analyze returns for every text of the request
AllAnalysable(request) ==
    \A i \in 1..Len(request.texts) :
        analyze(SentimentAnalyzer, request.texts[i], 0).outcome = "returned"

\* C20: for every batch request accepted by the request validator (1 to 100
\* texts), POST /api/v1/batch returns a response whose results list has one
\* analysis dict per input text, in input order, with total_processed equal
\* to the number of input texts (here even with an engine that works).
C20_OneResultPerText ==
    (BatchAccepted /\ fault = NoFault)
        => OneResultPerText(last.request, last.response)

\* C20, as the endpoint behaves: an accepted request gets one result per
\* text, in input order, when analyze returns for every text; when analyze
\* raises for a text, the request gets status 500 and no results at all.
C20_ResultsOrFailure ==
    (BatchAccepted /\ fault = NoFault) =>
        IF AllAnalysable(last.request)
        THEN OneResultPerText(last.request, last.response)
        ELSE /\ last.response.status = 500
             /\ "results" \notin DOMAIN last.response

\* an accepted request of several texts, one of them empty, was answered
\* with status 500 although analyze returns for another of its texts
C20_Witness ==
    /\ BatchAccepted
    /\ fault = NoFault
    /\ last.response.status = 500
    /\ \E i \in 1..Len(last.request.texts) : last.request.texts[i] = <<>>
    /\ \E i \in 1..Len(last.request.texts) :
           analyze(SentimentAnalyzer, last.request.texts[i], 0).outcome = "returned"

\* the places in the trace of the calls of check_rate_limit that returned
\* allowed
AllowedCalls ==
    {n \in 1..Len(trace) :
        trace[n].event = "check_rate_limit" /\ trace[n].is_allowed}

\* the seconds between the last call and the allowed call at place n
SecondsSince(n) == trace[Len(trace)].at - trace[n].at

\* the last call of check_rate_limit was rejected for the cooldown
CooldownRejected ==
    /\ last.op = "check_rate_limit"
    /\ ~last.is_allowed
    /\ \E wait_time \in 1..COOLDOWN_SECONDS :
           <<"Please wait", wait_time, "seconds before analyzing again.">>
               = last.message

\* C21: any two calls of RateLimiter.check_rate_limit in one session that
\* both return allowed are at least COOLDOWN_SECONDS (2 seconds) apart, and a
\* call made less than 2 seconds after the last allowed call is always
\* rejected with the cooldown message, whatever the counts of the minute and
\* of the hour are.
C21_Cooldown ==
    /\ \A i, j \in AllowedCalls :
           i < j => trace[j].at - trace[i].at >= COOLDOWN_SECONDS
    /\ (/\ last.op = "check_rate_limit"
        /\ \E n \in AllowedCalls :
               n < Len(trace) /\ SecondsSince(n) < COOLDOWN_SECONDS)
       => CooldownRejected

\* a call one second after an allowed call was rejected with the cooldown
\* message while the session held 10 requests of the last minute and 100 of
\* the last hour
C21_Witness ==
    /\ CooldownRejected
    /\ \E n \in AllowedCalls : SecondsSince(n) = 1
    /\ Cardinality({n \in AllowedCalls : SecondsSince(n) < 60})
           = MAX_REQUESTS_PER_MINUTE
    /\ Cardinality({n \in AllowedCalls : SecondsSince(n) < 3600})
           = MAX_REQUESTS_PER_HOUR

\* the last call of check_rate_limit returned rejected
LimitRejected == last.op = "check_rate_limit" /\ ~last.is_allowed

\* requests without its timestamps that are an hour old or older at the time
\* of the last call
LessThanAnHourOld(requests) ==
    SelectSeq(requests, LAMBDA req_time : trace[Len(trace)].at - req_time < 3600)

\* C22: a check_rate_limit call that returns rejected (cooldown, per-minute
\* or per-hour) leaves last_request_time unchanged and appends no timestamp
\* to rate_limit_requests; its only change of the state is the pruning of
\* the timestamps older than one hour (those of an age of 3600 seconds or
\* more, as the code takes it).
C22_RejectedOnlyPrunes ==
    LimitRejected =>
        /\ session_state.last_request_time = last.before.last_request_time
        /\ session_state.rate_limit_requests
               = LessThanAnHourOld(last.before.rate_limit_requests)
        /\ session_state =
               [last.before EXCEPT
                   !.rate_limit_requests = session_state.rate_limit_requests]

\* a rejected call pruned a timestamp
C22_Witness ==
    /\ LimitRejected
    /\ Len(session_state.rate_limit_requests)
           < Len(last.before.rate_limit_requests)
    /\ session_state.last_request_time = last.before.last_request_time

\* the logged events of the trace, the oldest first
LoggedEvents == SelectSeq(trace, LAMBDA e : e.event = "log_event")

\* logs holds the last length of the events, the oldest first, as entries
HoldsLastEvents(logs, events, length) ==
    /\ Len(logs) = length
    /\ \A k \in 1..length :
           /\ logs[k].timestamp = events[Len(events) - length + k].at
           /\ logs[k].type = events[Len(events) - length + k].type
           /\ logs[k].details = events[Len(events) - length + k].details
           /\ DOMAIN logs[k] = {"timestamp", "type", "details"}

\* C23: after any sequence of SecurityLogger.log_event calls, security_logs
\* has at most 100 entries and consists of the most recent min(n, 100) logged
\* events in chronological order (the oldest is dropped first).
C23_LastHundredLogs ==
    /\ Len(session_state.security_logs) <= 100
    /\ HoldsLastEvents(session_state.security_logs, LoggedEvents,
                       Min2(Len(LoggedEvents), 100))

\* more than 100 events were logged, and the logs start with the 100th last
C23_Witness ==
    /\ last.op = "log_event"
    /\ Len(LoggedEvents) > 100
    /\ Len(session_state.security_logs) = 100
    /\ session_state.security_logs[1].details
           = <<"event", Len(LoggedEvents) - 99>>

\* the last call was get_recent_logs with a count that is not negative
RecentLogsAsked == last.op = "get_recent_logs" /\ last.count >= 0

\* C24: for every count >= 0, SecurityLogger.get_recent_logs(count) returns
\* exactly the last min(count, number of stored logs) entries in
\* chronological order, never more than count entries, and does not modify
\* the stored logs.
C24_LastCountLogs ==
    RecentLogsAsked =>
        /\ Len(last.logs) <= last.count
        /\ last.logs = LastN(last.before.security_logs,
                             Min2(last.count, Len(last.before.security_logs)))
        /\ session_state = last.before

\* C24, as the code behaves: for every count >= 1 get_recent_logs(count)
\* returns the last min(count, number of stored logs) entries, for the count
\* 0 it returns all the stored logs, and it never modifies them.
C24_LastCountOrAll ==
    RecentLogsAsked =>
        /\ last.logs = IF last.count = 0 THEN last.before.security_logs
                       ELSE LastN(last.before.security_logs,
                                  Min2(last.count, Len(last.before.security_logs)))
        /\ session_state = last.before

\* get_recent_logs(0) returned stored logs
C24_Witness ==
    /\ RecentLogsAsked
    /\ last.count = 0
    /\ Len(last.logs) > 10
    /\ last.logs = session_state.security_logs

\* the names of the functions of calls, in the order of the calls
FunctionsOf(calls) == [k \in 1..Len(calls) |-> calls[k].fn]

\* the stages of the security flow of render, in their order
SecurityFlow ==
    <<"validate_input", "check_rate_limit", "sanitize_text", "is_spam", "analyze">>

\* the last press of the Analyze button called analyze
AnalyzeCalled ==
    /\ last.op = "analyze_button"
    /\ \E k \in 1..Len(last.calls) : last.calls[k].fn = "analyze"

\* C25: in the home screen, analyzer.analyze is invoked for a button press
\* only after, in this order, validate_input accepted the raw text,
\* check_rate_limit allowed the request, and is_spam rejected nothing on the
\* sanitized text; a failure at any stage stops the flow, so that no later
\* stage runs, and the text given to analyze is the sanitized text, not the
\* validated raw text.
C25_SecurityFlow ==
    last.op = "analyze_button" =>
        /\ FunctionsOf(last.calls) = SubSeq(SecurityFlow, 1, Len(last.calls))
        /\ AnalyzeCalled =>
               /\ last.calls[1].arg = last.text_input
               /\ last.calls[1].returned = TRUE
               /\ last.calls[2].returned = TRUE
               /\ last.calls[3].arg = last.text_input
               /\ last.calls[4].arg = last.calls[3].returned
               /\ last.calls[4].returned = FALSE
               /\ last.calls[5].arg = last.calls[3].returned
               /\ last.calls[3].returned = sanitize_text(last.text_input)
        /\ ~AnalyzeCalled =>
               /\ Len(last.calls) \in {0, 1, 2, 4}
               /\ Len(last.calls) = 0 => ~HasContent(last.text_input)
               /\ Len(last.calls) \in {1, 2} =>
                      last.calls[Len(last.calls)].returned = FALSE
               /\ Len(last.calls) = 4 => last.calls[4].returned = TRUE
               /\ last.outcome \in {"empty", "invalid", "rate_limit", "spam_detected"}

\* analyze was called on a sanitized text that differs from the text entered,
\* after presses that stopped at the validation, at the rate limit and at
\* the spam check
C25_Witness ==
    /\ AnalyzeCalled
    /\ last.calls[5].arg # last.text_input
    /\ last.outcome = "analysis_success"
    /\ \A outcome \in {"invalid", "rate_limit", "spam_detected"} :
           \E n \in 1..Len(trace) :
               trace[n].event = "analyze_button" /\ trace[n].outcome = outcome

\* the last press of the Analyze button passed check_rate_limit
PassedRateLimit ==
    /\ last.op = "analyze_button"
    /\ last.outcome \in {"spam_detected", "validation_error", "analysis_error",
                         "analysis_success"}

\* C26: in the home screen the quota of the rate limit is consumed at the
\* rate-limit check, before sanitisation, spam detection and analysis: a
\* request that passes check_rate_limit but is then rejected as spam, or
\* whose analyze call raises, still adds its timestamp to
\* rate_limit_requests and restarts the 2-second cooldown.
C26_QuotaConsumed ==
    PassedRateLimit =>
        /\ session_state.rate_limit_requests
               = Append(LessThanAnHourOld(last.before.rate_limit_requests),
                        trace[Len(trace)].at)
        /\ session_state.last_request_time = trace[Len(trace)].at
        /\ ~check_rate_limit(session_state, trace[Len(trace)].at + 1).is_allowed

\* a press was rejected for the cooldown one second after a press whose
\* analyze call raised, and an earlier press that was rejected as spam had
\* added its timestamp
C26_Witness ==
    /\ last.op = "analyze_button"
    /\ last.outcome = "rate_limit"
    /\ Len(trace) >= 2
    /\ trace[Len(trace) - 1].event = "analyze_button"
    /\ trace[Len(trace) - 1].outcome = "validation_error"
    /\ trace[Len(trace) - 1].at = trace[Len(trace)].at - 1
    /\ \E n \in 1..Len(trace) :
           /\ trace[n].event = "analyze_button"
           /\ trace[n].outcome = "spam_detected"
           /\ \E k \in 1..Len(session_state.rate_limit_requests) :
                  session_state.rate_limit_requests[k] = trace[n].at

\* the last call was analyze on a text that passed the checks of the input
\* (content, characters, words), with an engine that works
AnalyzedChecked ==
    /\ last.op = "analyze"
    /\ fault = NoFault
    /\ HasContent(last.text)
    /\ ~TooLong(last.text)
    /\ ~TooManyWords(last.text)

\* C27: whenever analyze returns a profile, the cleaned text that was passed
\* to the Polarity Engine contains at least one non-whitespace character; an
\* input whose preprocessing leaves no non-whitespace content is rejected
\* with the invalid-input error instead of being scored.
C27_ContentScored ==
    /\ (last.op = "analyze" /\ last.outcome = "returned")
           => HasContent(preprocess_text(last.text))
    /\ (AnalyzedChecked /\ ~HasContent(preprocess_text(last.text)))
           => (last.outcome = "ValueError" /\ last.error = MsgNoContent)

\* C27, as the code behaves: whenever analyze returns a profile, the cleaned
\* text is not the empty string, and an input whose preprocessing leaves the
\* empty string is rejected with the invalid-input error; a cleaned text of
\* whitespace only is scored.
C27_NonEmptyScored ==
    /\ (last.op = "analyze" /\ last.outcome = "returned")
           => preprocess_text(last.text) # <<>>
    /\ (AnalyzedChecked /\ preprocess_text(last.text) = <<>>)
           => (last.outcome = "ValueError" /\ last.error = MsgNoContent)
    /\ (AnalyzedChecked /\ preprocess_text(last.text) # <<>>)
           => last.outcome = "returned"

\* analyze returned a profile for a text whose cleaned text is one space
C27_Witness ==
    /\ last.op = "analyze"
    /\ last.outcome = "returned"
    /\ preprocess_text(last.text) = <<" ">>
    /\ last.profile.label = "Neutral"

====
